---- MODULE Spec2Model ----
(***************************************************************************)
(* Cost-delta engine of the cloudcost GitHub action (src/index.js).        *)
(*                                                                         *)
(* Conventions of the translation:                                         *)
(*  - a JavaScript string is a sequence of one-character strings, so that  *)
(*    the key `${service}|${logical_id}` and key.split('|') are computed   *)
(*    character by character;                                              *)
(*  - an optional JSON field is <<>> when absent and <<v>> when present;   *)
(*  - a JavaScript Map is the sequence of its entries in insertion order;  *)
(*  - money is an integer number of currency units.                        *)
(***************************************************************************)
EXTENDS Integers, Sequences, FiniteSets, TLC

VARIABLES
  baseReport,    \* main: const baseReport = readJson(baseJson)
  headReport,    \* main: const headReport = readJson(headJson)
  delta,         \* main: const delta = computeDelta(baseReport, headReport)
  pc,            \* where main stands
  commentTitle,  \* main: const commentTitle
  markdown,      \* main: const markdown = renderMarkdown(delta, commentTitle)
  inputs,        \* the action's inputs and the event payload
  runner,        \* the runner's checkout, cdk.out and report files
  calls,         \* the commands and requests of the current run, in order
  failed,        \* core.setFailed has been called in the current run
  existing,      \* upsertPrComment: const existing
  comments,      \* the pull request's comments, as GitHub holds them
  runs,          \* the earlier runs of the action on the pull request
  output,        \* the lines the process has logged, in order
  exitCode,      \* the exit code of a script's process, once it has ended
  changedFiles,  \* collect-cfn-diff: the files of const changed not yet looked at
  files          \* collect-cfn-diff: const items, the files of the payload

engineVars == <<baseReport, headReport, delta, pc>>

scriptVars == <<output, exitCode, changedFiles, files>>

runVars == <<inputs, runner, calls, failed, existing, comments, runs, scriptVars>>

vars == <<baseReport, headReport, delta, pc, commentTitle, markdown,
          inputs, runner, calls, failed, existing, comments, runs,
          output, exitCode, changedFiles, files>>

----------------------------------------------------------------------------
(* Optional values and small helpers                                       *)

Absent == <<>>

Some(v) == <<v>>

\* a ?? d  (also a || d when a is an array or absent)
OrElse(a, d) == IF a = Absent THEN d ELSE a[1]

Abs(n) == IF n < 0 THEN -n ELSE n

Range(s) == {s[i] : i \in 1..Len(s)}

RECURSIVE SumSeq(_)
SumSeq(s) == IF s = <<>> THEN 0 ELSE s[1] + SumSeq(Tail(s))

----------------------------------------------------------------------------
(* Strings                                                                 *)

Pipe == "|"

\* `${item.service}|${item.logical_id}`
ItemKey(item) == item.service \o <<Pipe>> \o item.logical_id

\* String.prototype.split(sep) for a one-character separator: the pieces
\* between separators, in order (always at least one piece).
RECURSIVE SplitFrom(_, _, _)
SplitFrom(s, sep, cur) ==
  IF s = <<>> THEN <<cur>>
  ELSE IF s[1] = sep THEN <<cur>> \o SplitFrom(Tail(s), sep, <<>>)
  ELSE SplitFrom(Tail(s), sep, Append(cur, s[1]))

Split(s, sep) == SplitFrom(s, sep, <<>>)

\* const [service, logicalId] = key.split('|')
KeyParts(key) ==
  LET parts == Split(key, Pipe)
  IN  [service |-> parts[1], logicalId |-> parts[2]]

----------------------------------------------------------------------------
(* Map (insertion-ordered) and Set built from a spread of keys             *)

MapHas(m, k) == \E i \in 1..Len(m) : m[i].key = k

\* Map.prototype.get: undefined (Absent) when the key is missing
MapGet(m, k) ==
  IF MapHas(m, k)
  THEN Some((CHOOSE e \in Range(m) : e.key = k).value)
  ELSE Absent

\* Map.prototype.set: an existing key keeps its position and takes the new
\* value; a new key is appended.
MapSet(m, k, v) ==
  IF MapHas(m, k)
  THEN [i \in 1..Len(m) |-> IF m[i].key = k THEN [key |-> k, value |-> v] ELSE m[i]]
  ELSE Append(m, [key |-> k, value |-> v])

MapKeys(m) == [i \in 1..Len(m) |-> m[i].key]

\* new Set([...xs]): the distinct elements in order of first occurrence
RECURSIVE SetOf(_)
SetOf(xs) ==
  IF xs = <<>> THEN <<>>
  ELSE LET init == SetOf(SubSeq(xs, 1, Len(xs) - 1))
           x == xs[Len(xs)]
       IN  IF x \in Range(init) THEN init ELSE Append(init, x)

----------------------------------------------------------------------------
(* Array.prototype.sort((a, b) => Math.abs(b.diff) - Math.abs(a.diff)):    *)
(* a stable sort; an element moves in front of another only when the       *)
(* comparator is positive for the pair in their current order.             *)

\* variant: ascending comparator
CompareDiffAscending(a, b) == Abs(a.diff) - Abs(b.diff)

CompareDiff(a, b) == Abs(b.diff) - Abs(a.diff)

\* variant: an element also moves in front of elements it ties with
RECURSIVE InsertSortedUnstable(_, _)
InsertSortedUnstable(sorted, x) ==
  IF sorted = <<>> THEN <<x>>
  ELSE LET last == sorted[Len(sorted)]
       IN  IF Abs(x.diff) - Abs(last.diff) >= 0
           THEN Append(InsertSortedUnstable(SubSeq(sorted, 1, Len(sorted) - 1), x), last)
           ELSE Append(sorted, x)

RECURSIVE InsertSorted(_, _)
InsertSorted(sorted, x) ==
  IF sorted = <<>> THEN <<x>>
  ELSE LET last == sorted[Len(sorted)]
       IN  IF CompareDiff(last, x) > 0
           THEN Append(InsertSorted(SubSeq(sorted, 1, Len(sorted) - 1), x), last)
           ELSE Append(sorted, x)

RECURSIVE SortByDiff(_)
SortByDiff(xs) ==
  IF xs = <<>> THEN <<>>
  ELSE InsertSorted(SortByDiff(SubSeq(xs, 1, Len(xs) - 1)), xs[Len(xs)])

----------------------------------------------------------------------------
(* indexReport                                                             *)

\* for (const item of s.items || []) itemMap.set(key, item)
RECURSIVE IndexItems(_)
IndexItems(items) ==
  IF items = <<>> THEN <<>>
  ELSE LET item == items[Len(items)]
       IN  MapSet(IndexItems(SubSeq(items, 1, Len(items) - 1)), ItemKey(item), item)

\* variant: a missing stack total defaults to the sum of the stack's items
IndexStackTotalFromItems(s) ==
  [name  |-> s.name,
   total |-> OrElse(s.total_monthly_usd,
                    SumSeq([i \in 1..Len(OrElse(s.items, <<>>)) |->
                              OrElse(s.items, <<>>)[i].monthly_usd])),
   items |-> IndexItems(OrElse(s.items, <<>>))]

\* the value stored under s.name
IndexStack(s) ==
  [name  |-> s.name,
   total |-> OrElse(s.total_monthly_usd, 0),
   items |-> IndexItems(OrElse(s.items, <<>>))]

\* for (const s of report.stacks || []) stacks.set(s.name, {...})
RECURSIVE IndexStacks(_)
IndexStacks(stacks) ==
  IF stacks = <<>> THEN <<>>
  ELSE LET s == stacks[Len(stacks)]
       IN  MapSet(IndexStacks(SubSeq(stacks, 1, Len(stacks) - 1)), s.name, IndexStack(s))

\* Array.from(stacks.values()).reduce((sum, s) => sum + (s.total || 0), 0)
SumStackTotals(stacks) ==
  SumSeq([i \in 1..Len(stacks) |-> stacks[i].value.total])

\* variant: report.grand_total_usd || sum, which drops a declared 0
indexReportFalsyTotal(report) ==
  LET stacks == IndexStacks(OrElse(report.stacks, <<>>))
  IN  [stacks |-> stacks,
       total  |-> IF report.grand_total_usd # Absent /\ report.grand_total_usd[1] # 0
                  THEN report.grand_total_usd[1]
                  ELSE SumStackTotals(stacks)]

indexReport(report) ==
  LET stacks == IndexStacks(OrElse(report.stacks, <<>>))
  IN  [stacks |-> stacks,
       total  |-> OrElse(report.grand_total_usd, SumStackTotals(stacks))]

----------------------------------------------------------------------------
(* computeDelta                                                            *)

\* a || b for strings: the empty string is falsy
Truthy(optStr) == optStr # Absent /\ optStr[1] # <<>>

\* item?.field for an item that may be undefined
Field(optItem, f) == IF optItem = Absent THEN Absent ELSE optItem[1][f]

\* variant: the base item's path is preferred
ResolveCdkPathBaseFirst(baseItem, headItem) ==
  IF Truthy(Field(baseItem, "cdk_path")) THEN Field(baseItem, "cdk_path")
  ELSE IF Truthy(Field(headItem, "cdk_path")) THEN Field(headItem, "cdk_path")
  ELSE Absent

\* headItem?.cdk_path || baseItem?.cdk_path || undefined
ResolveCdkPath(baseItem, headItem) ==
  IF Truthy(Field(headItem, "cdk_path")) THEN Field(headItem, "cdk_path")
  ELSE IF Truthy(Field(baseItem, "cdk_path")) THEN Field(baseItem, "cdk_path")
  ELSE Absent

\* headItem?.notes || baseItem?.notes || []   (an array is always truthy)
ResolveNotes(baseItem, headItem) ==
  IF Field(headItem, "notes") # Absent THEN Field(headItem, "notes")[1]
  ELSE IF Field(baseItem, "notes") # Absent THEN Field(baseItem, "notes")[1]
  ELSE <<>>

\* baseItem?.monthly_usd ?? 0
ItemVal(optItem) == IF optItem = Absent THEN 0 ELSE optItem[1].monthly_usd

\* baseStack?.items.get(key)
StackItem(optStack, key) ==
  IF optStack = Absent THEN Absent ELSE MapGet(optStack[1].items, key)

\* the object pushed onto items for one key
ItemDelta(stackName, key, baseItem, headItem) ==
  [service   |-> KeyParts(key).service,
   logicalId |-> KeyParts(key).logicalId,
   cdkPath   |-> ResolveCdkPath(baseItem, headItem),
   base      |-> ItemVal(baseItem),
   head      |-> ItemVal(headItem),
   diff      |-> ItemVal(headItem) - ItemVal(baseItem),
   notes     |-> ResolveNotes(baseItem, headItem),
   stackName |-> stackName]

\* new Set([...baseStack.items.keys(), ...headStack.items.keys()])
ItemKeys(baseStack, headStack) ==
  SetOf((IF baseStack = Absent THEN <<>> ELSE MapKeys(baseStack[1].items))
        \o (IF headStack = Absent THEN <<>> ELSE MapKeys(headStack[1].items)))

\* variant: only cost increases are reported
KeepIncrease(itemDiff) == itemDiff > 0

\* variant: no filtering of unchanged items
KeepAll(itemDiff) == TRUE

\* if (itemDiff === 0) continue
KeepItem(itemDiff) == itemDiff # 0

\* the loop over itemKeys: one ItemDelta per key whose diff is not 0
RECURSIVE CollectItems(_, _, _, _)
CollectItems(stackName, keys, baseStack, headStack) ==
  IF keys = <<>> THEN <<>>
  ELSE LET key == keys[Len(keys)]
           baseItem == StackItem(baseStack, key)
           headItem == StackItem(headStack, key)
           rest == CollectItems(stackName, SubSeq(keys, 1, Len(keys) - 1),
                                baseStack, headStack)
       IN  IF KeepItem(ItemVal(headItem) - ItemVal(baseItem))
           THEN Append(rest, ItemDelta(stackName, key, baseItem, headItem))
           ELSE rest

\* baseStack?.total ?? 0
StackTotal(optStack) == IF optStack = Absent THEN 0 ELSE optStack[1].total

\* the object pushed onto stacksDelta for one stack name
StackDelta(stackName, base, head) ==
  LET baseStack == MapGet(base.stacks, stackName)
      headStack == MapGet(head.stacks, stackName)
  IN  [stackName |-> stackName,
       base      |-> StackTotal(baseStack),
       head      |-> StackTotal(headStack),
       diff      |-> StackTotal(headStack) - StackTotal(baseStack),
       items     |-> SortByDiff(CollectItems(stackName,
                                             ItemKeys(baseStack, headStack),
                                             baseStack, headStack))]

\* variant: the two key lists concatenated without the Set
StackNamesNoDedup(base, head) == MapKeys(base.stacks) \o MapKeys(head.stacks)

\* new Set([...base.stacks.keys(), ...head.stacks.keys()])
StackNamesOf(base, head) == SetOf(MapKeys(base.stacks) \o MapKeys(head.stacks))

\* variant: the total diff taken from the stack totals
TotalDeltaFromStacks(base, head) ==
  [base |-> base.total, head |-> head.total,
   diff |-> SumStackTotals(head.stacks) - SumStackTotals(base.stacks)]

TotalDelta(base, head) ==
  [base |-> base.total, head |-> head.total, diff |-> head.total - base.total]

computeDelta(baseRep, headRep) ==
  LET base == indexReport(baseRep)
      head == indexReport(headRep)
      stackNames == StackNamesOf(base, head)
  IN  [total  |-> TotalDelta(base, head),
       stacks |-> SortByDiff([i \in 1..Len(stackNames) |->
                                StackDelta(stackNames[i], base, head)])]

----------------------------------------------------------------------------
(* formatUsd and renderMarkdown.  Money is counted in thousandths of a     *)
(* dollar, so that toFixed(2) has digits to round away.                    *)

NL == "\n"

DigitChar(d) == <<"0", "1", "2", "3", "4", "5", "6", "7", "8", "9">>[d + 1]

\* the decimal digits of a natural number
RECURSIVE Digits(_)
Digits(n) ==
  IF n < 10 THEN <<DigitChar(n)>>
  ELSE Append(Digits(n \div 10), DigitChar(n % 10))

\* Number.prototype.toFixed(2): the sign, then the magnitude rounded to the
\* nearest hundredth (a tie goes up), with exactly two decimals
ToFixed2(value) ==
  LET n == (Abs(value) + 5) \div 10
  IN  (IF value < 0 THEN <<"-">> ELSE <<>>)
      \o Digits(n \div 100) \o <<".", DigitChar((n \div 10) % 10), DigitChar(n % 10)>>

\* variant: the sign is put before the dollar sign
formatUsdSignFirst(value) ==
  (IF value < 0 THEN <<"-">> ELSE <<>>) \o <<"$">> \o ToFixed2(Abs(value))

\* `$${value.toFixed(2)}`
formatUsd(value) == <<"$">> \o ToFixed2(value)

\* lines.join('\n')
RECURSIVE Join(_)
Join(lines) ==
  IF lines = <<>> THEN <<>>
  ELSE IF Len(lines) = 1 THEN lines[1]
  ELSE Join(SubSeq(lines, 1, Len(lines) - 1)) \o <<NL>> \o lines[Len(lines)]

\* ` | `
Bar == <<" ", "|", " ">>

\* lines.push('<!-- cloudcostgh-comment -->')
MarkerLine ==
  <<"<", "!", "-", "-", " ", "c", "l", "o", "u", "d", "c", "o", "s", "t",
    "g", "h", "-", "c", "o", "m", "m", "e", "n", "t", " ", "-", "-", ">">>

\* variant: the heading comes before the marker
HeadLinesTitleFirst(title) == <<<<"#", "#", " ">> \o title, MarkerLine, <<>>>>

\* the marker, the heading and an empty line
HeadLines(title) == <<MarkerLine, <<"#", "#", " ">> \o title, <<>>>>

\* the total table: heading, header, rule, the Amount row, an empty line
TotalLines(total) ==
  <<<<"*", "*", "T", "o", "t", "a", "l", " ", "m", "o", "n", "t", "h",
      "l", "y", " ", "c", "o", "s", "t", "*", "*">>,
    <<>>,
    <<"|", " ", " ", " ", " ", " ", " ", " ", " ", "|", " ", "B", "a",
      "s", "e", " ", "|", " ", "H", "e", "a", "d", " ", "|", " ", "Δ",
      " ", "|">>,
    <<"|", "-", "-", "-", "-", "-", "-", "-", "-", "|", "-", "-", "-",
      "-", "-", "-", "|", "-", "-", "-", "-", "-", "-", "|", "-", "-",
      "-", "|">>,
    <<"|", " ", "A", "m", "o", "u", "n", "t", " ", "|", " ">>
      \o formatUsd(total.base) \o Bar \o formatUsd(total.head) \o Bar
      \o formatUsd(total.diff) \o <<" ", "|">>,
    <<>>>>

\* for (const stack of delta.stacks) for (const item of stack.items) allItems.push(item)
RECURSIVE AllItems(_)
AllItems(stacks) ==
  IF stacks = <<>> THEN <<>>
  ELSE AllItems(SubSeq(stacks, 1, Len(stacks) - 1)) \o stacks[Len(stacks)].items

\* allItems.slice(0, 10)
TopN == 10

\* variant: the first ten of the flattened list, without the second sort
TopItemsUnsorted(dl) ==
  SubSeq(AllItems(dl.stacks), 1,
         IF Len(AllItems(dl.stacks)) < TopN THEN Len(AllItems(dl.stacks)) ELSE TopN)

\* allItems.sort(...); const topItems = allItems.slice(0, 10)
TopItems(dl) ==
  LET sorted == SortByDiff(AllItems(dl.stacks))
  IN  SubSeq(sorted, 1, IF Len(sorted) < TopN THEN Len(sorted) ELSE TopN)

\* one row of the item table
ItemRow(item) ==
  <<"|", " ", item.stackName>> \o Bar \o item.service \o Bar \o item.logicalId
  \o Bar \o formatUsd(item.base) \o Bar \o formatUsd(item.head)
  \o Bar \o formatUsd(item.diff) \o <<" ", "|">>

\* the item table, if there is any item: heading, header, rule, rows, empty line
ItemLines(dl) ==
  IF TopItems(dl) = <<>> THEN <<>>
  ELSE <<<<"*", "*", "T", "o", "p", " ", "r", "e", "s", "o", "u", "r",
           "c", "e", " ", "d", "e", "l", "t", "a", "s", "*", "*">>,
         <<>>,
         <<"|", " ", "S", "t", "a", "c", "k", " ", "|", " ", "S", "e",
           "r", "v", "i", "c", "e", " ", "|", " ", "L", "o", "g", "i",
           "c", "a", "l", " ", "I", "D", " ", "|", " ", "B", "a", "s",
           "e", " ", "|", " ", "H", "e", "a", "d", " ", "|", " ", "Δ",
           " ", "|">>,
         <<"|", "-", "-", "-", "-", "-", "-", "-", "|", "-", "-", "-",
           "-", "-", "-", "-", "-", "-", "|", "-", "-", "-", "-", "-",
           "-", "-", "-", "-", "-", "-", "|", "-", "-", "-", "-", "-",
           "-", "|", "-", "-", "-", "-", "-", "-", "|", "-", "-", "-",
           "|">>>>
       \o [i \in 1..Len(TopItems(dl)) |-> ItemRow(TopItems(dl)[i])]
       \o <<<<>>>>

renderMarkdown(dl, title) ==
  Join(HeadLines(title) \o TotalLines(dl.total) \o ItemLines(dl))

\* upsertPrComment: const marker = '<!-- cloudcostgh-comment -->'
marker ==
  <<"<", "!", "-", "-", " ", "c", "l", "o", "u", "d", "c", "o", "s", "t",
    "g", "h", "-", "c", "o", "m", "m", "e", "n", "t", " ", "-", "-", ">">>

----------------------------------------------------------------------------
(* The specifications of the delta engine start where main has read the    *)
(* two reports; the rest of main's state is not looked at and rests.       *)

Nothing == [none |-> TRUE]

EngineOnly ==
  /\ commentTitle = Absent
  /\ markdown = Absent
  /\ inputs = Nothing
  /\ runner = Nothing
  /\ calls = <<>>
  /\ failed = FALSE
  /\ existing = Absent
  /\ comments = <<>>
  /\ runs = <<>>
  /\ output = <<>>
  /\ exitCode = Absent
  /\ changedFiles = <<>>
  /\ files = <<>>

----------------------------------------------------------------------------
(* Inputs: the two reports the analyzer wrote, as main reads them back     *)
(* with readJson.  Three families of report pairs are enumerated, each     *)
(* under its own specification.                                            *)

\* items over both reports together (item-level and annotation families)
MaxItems == 3

\* stacks over both reports together (stack-level family)
MaxStacks == 3

\* monthly costs, stack totals and grand totals
Usd == {0, 5, 10}

OptUsd == {Absent} \cup {Some(c) : c \in Usd}

Services == {<<"a">>, <<"a", "|", "b">>}

LogicalIds == {<<"c">>, <<"b", "|", "c">>}

StackNames == {"A", "B", "C"}

Item(service, logical_id, monthly_usd, cdk_path, notes) ==
  [service |-> service, logical_id |-> logical_id, monthly_usd |-> monthly_usd,
   cdk_path |-> cdk_path, notes |-> notes]

Stack(name, total, items) ==
  [name |-> name, total_monthly_usd |-> total, items |-> items]

Report(grand, stacks) == [grand_total_usd |-> grand, stacks |-> stacks]

ItemCosts(items) == [i \in 1..Len(items) |-> items[i].monthly_usd]

\* sequences of n pairwise distinct stack names
DistinctNames(n) ==
  {f \in [1..n -> StackNames] : \A i, j \in 1..n : f[i] = f[j] => i = j}

(* Item-level family: each report has at most the one stack "A", whose     *)
(* total is the sum of its items; no grand total is declared; items carry  *)
(* no annotations; two items of one stack may share (service, logical_id), *)
(* and services and logical ids may contain the separator character.       *)

PlainItems == {Item(s, l, c, Absent, Absent) : s \in Services, l \in LogicalIds, c \in Usd}

ItemReport(present, items) ==
  Report(Absent,
         Some(IF present
              THEN <<Stack("A", Some(SumSeq(ItemCosts(items))), Some(items))>>
              ELSE <<>>))

InitItems ==
  /\ \E nb \in 0..MaxItems : \E nh \in 0..(MaxItems - nb) :
       \E bi \in [1..nb -> PlainItems], hi \in [1..nh -> PlainItems] :
         \E bs \in {b \in BOOLEAN : b \/ nb = 0}, hs \in {b \in BOOLEAN : b \/ nh = 0} :
           /\ baseReport = ItemReport(bs, bi)
           /\ headReport = ItemReport(hs, hi)
  /\ delta = Absent
  /\ pc = "start"
  /\ EngineOnly

(* Stack-level family: stacks with pairwise distinct names (the report     *)
(* format's contract), any declared or missing total, a declared or        *)
(* missing grand total.  The items of a stack are fixed by its name and    *)
(* side, with costs unrelated to the stack's total: "A" has no items       *)
(* collection, "B" the same item on both sides, "C" an item whose cost     *)
(* differs between base and head.                                          *)

StackItemsOf(side, name) ==
  IF name = "A" THEN Absent
  ELSE IF name = "B" THEN Some(<<Item(<<"a">>, <<"c">>, 10, Absent, Absent)>>)
  ELSE Some(<<Item(<<"a">>, <<"c">>, IF side = "base" THEN 5 ELSE 10, Absent, Absent)>>)

StackSeq(side, names, totals) ==
  [i \in 1..Len(names) |-> Stack(names[i], totals[i], StackItemsOf(side, names[i]))]

InitStacks ==
  /\ \E nb \in 0..MaxStacks : \E nh \in 0..(MaxStacks - nb) :
       \E bn \in DistinctNames(nb), hn \in DistinctNames(nh) :
         \E bt \in [1..nb -> OptUsd], ht \in [1..nh -> OptUsd] :
           \E bg \in OptUsd, hg \in OptUsd :
             /\ baseReport = Report(bg, Some(StackSeq("base", bn, bt)))
             /\ headReport = Report(hg, Some(StackSeq("head", hn, ht)))
  /\ delta = Absent
  /\ pc = "start"
  /\ EngineOnly

(* Annotation family: as the item-level family, with items that carry the  *)
(* optional cdk_path and notes.  The two identities collide in the joined  *)
(* key; an item's cost goes with its annotations, so that two items of the *)
(* same identity can differ in cost, path and notes.                       *)

Annotations ==
  {[monthly_usd |-> 5,  cdk_path |-> Absent,          notes |-> Absent],
   [monthly_usd |-> 10, cdk_path |-> Some(<<>>),      notes |-> Some(<<>>)],
   [monthly_usd |-> 5,  cdk_path |-> Some(<<"p">>),   notes |-> Some(<<"n">>)],
   [monthly_usd |-> 10, cdk_path |-> Some(<<"q">>),   notes |-> Some(<<"m">>)],
   [monthly_usd |-> 5,  cdk_path |-> Some(<<"q">>),   notes |-> Absent],
   [monthly_usd |-> 10, cdk_path |-> Absent,          notes |-> Some(<<"n">>)]}

AnnotatedPairs == {<<<<"a", "|", "b">>, <<"c">>>>, <<<<"a">>, <<"b", "|", "c">>>>}

AnnotatedItems ==
  {Item(p[1], p[2], m.monthly_usd, m.cdk_path, m.notes) :
     p \in AnnotatedPairs, m \in Annotations}

InitNotes ==
  /\ \E nb \in 0..MaxItems : \E nh \in 0..(MaxItems - nb) :
       \E bi \in [1..nb -> AnnotatedItems], hi \in [1..nh -> AnnotatedItems] :
         \E bs \in {b \in BOOLEAN : b \/ nb = 0}, hs \in {b \in BOOLEAN : b \/ nh = 0} :
           /\ baseReport = ItemReport(bs, bi)
           /\ headReport = ItemReport(hs, hi)
  /\ delta = Absent
  /\ pc = "start"
  /\ EngineOnly

(* Identical reports: both commits produce the same report R, taken from   *)
(* the stack-level family or the item-level family, each with the whole    *)
(* budget on the one report.                                               *)

InitSame ==
  /\ \/ \E k \in 0..MaxStacks :
          \E n \in DistinctNames(k), t \in [1..k -> OptUsd], g \in OptUsd :
            baseReport = Report(g, Some(StackSeq("base", n, t)))
     \/ \E k \in 0..MaxItems : \E i \in [1..k -> PlainItems] :
          baseReport = ItemReport(TRUE, i)
  /\ headReport = baseReport
  /\ delta = Absent
  /\ pc = "start"
  /\ EngineOnly

(* Sparse reports: a report may lack its stacks collection and its grand   *)
(* total, a stack its total and its items collection, an item its          *)
(* cdk_path and notes; the stack sets of the two reports may be disjoint.  *)

SparseItem(side) ==
  Item(<<"a">>, <<"c">>, IF side = "base" THEN 5 ELSE 10, Absent, Absent)

SparseStackSeq(side, names, totals, withItems) ==
  [i \in 1..Len(names) |->
     Stack(names[i], totals[i],
           IF withItems[i] THEN Some(<<SparseItem(side)>>) ELSE Absent)]

SparseReports(side, n) ==
  {Report(g, Some(SparseStackSeq(side, names, totals, withItems))) :
     g \in {Absent, Some(10)}, names \in DistinctNames(n),
     totals \in [1..n -> {Absent, Some(5)}], withItems \in [1..n -> BOOLEAN]}
  \cup (IF n = 0 THEN {Report(g, Absent) : g \in {Absent, Some(10)}} ELSE {})

InitDefaults ==
  /\ \E nb \in 0..MaxStacks : \E nh \in 0..(MaxStacks - nb) :
       /\ baseReport \in SparseReports("base", nb)
       /\ headReport \in SparseReports("head", nh)
  /\ delta = Absent
  /\ pc = "start"
  /\ EngineOnly

\* const delta = computeDelta(baseReport, headReport)
Compute ==
  /\ pc = "start"
  /\ delta' = Some(computeDelta(baseReport, headReport))
  /\ pc' = "done"
  /\ UNCHANGED <<baseReport, headReport, commentTitle, markdown>>
  /\ UNCHANGED runVars

\* const markdown = renderMarkdown(delta, commentTitle)
Render ==
  /\ pc = "done"
  /\ markdown' = Some(renderMarkdown(delta[1], commentTitle))
  /\ pc' = "rendered"
  /\ UNCHANGED <<baseReport, headReport, delta, commentTitle>>
  /\ UNCHANGED runVars

(* Reports for the renderer: up to three stacks "A", "B", "C" with up to   *)
(* MaxPerStack items each, priced in whole cents by one of four patterns;  *)
(* or one stack with one item and declared grand totals, priced with the   *)
(* values whose formatting is of interest, under either title.             *)

\* items of one stack of one report
MaxPerStack == 6

\* core.getInput('comment_title') || 'Cloud Cost Impact'
DefaultTitle ==
  <<"C", "l", "o", "u", "d", " ", "C", "o", "s", "t", " ", "I", "m", "p",
    "a", "c", "t">>

RenderPatterns == {"added", "spread", "equal", "mixed"}

\* the cost of item j of stack s on one side; 0 stands for no such item
RenderCost(side, p, s, j) ==
  IF p = "added" THEN (IF side = "head" THEN 10 * j ELSE 0)
  ELSE IF p = "spread" THEN (IF side = "head" THEN 10 * (3 * j + s) ELSE 0)
  ELSE IF p = "equal" THEN (IF side = "head" THEN 10 ELSE 0)
  ELSE IF (side = "head") = (j % 2 = 1) THEN 10 + 10 * (3 * j + s) ELSE 10

RECURSIVE RenderItems(_, _, _, _)
RenderItems(side, p, s, n) ==
  IF n = 0 THEN <<>>
  ELSE LET rest == RenderItems(side, p, s, n - 1)
       IN  IF RenderCost(side, p, s, n) = 0 THEN rest
           ELSE Append(rest, Item(<<"s">>, Digits(n), RenderCost(side, p, s, n),
                                  Absent, Absent))

RenderReport(side, p, counts) ==
  Report(Absent,
         Some([s \in 1..Len(counts) |->
                 LET items == RenderItems(side, p, s, counts[s])
                 IN  Stack(<<"A", "B", "C">>[s], Some(SumSeq(ItemCosts(items))),
                           Some(items))]))

FormatValues == {0, 4, 125, 12300, 1234500}

FormatReport(v) ==
  Report(Some(v),
         Some(<<Stack("A", Some(v),
                      Some(<<Item(<<"s">>, <<"1">>, v, Absent, Absent)>>))>>))

InitRender ==
  /\ \/ /\ \E p \in RenderPatterns, k \in 0..3 : \E counts \in [1..k -> 0..MaxPerStack] :
            /\ baseReport = RenderReport("base", p, counts)
            /\ headReport = RenderReport("head", p, counts)
        /\ commentTitle = DefaultTitle
     \/ /\ \E b \in FormatValues, h \in FormatValues :
            /\ baseReport = FormatReport(b)
            /\ headReport = FormatReport(h)
        /\ commentTitle \in {DefaultTitle, <<"T">>}
  /\ delta = Absent
  /\ pc = "start"
  /\ markdown = Absent
  /\ inputs = Nothing
  /\ runner = Nothing
  /\ calls = <<>>
  /\ failed = FALSE
  /\ existing = Absent
  /\ comments = <<>>
  /\ runs = <<>>
  /\ output = <<>>
  /\ exitCode = Absent
  /\ changedFiles = <<>>
  /\ files = <<>>

----------------------------------------------------------------------------
(* main and upsertPrComment.  A run reads its inputs, runs nine commands   *)
(* one after the other with execSync, reads the two reports, computes and  *)
(* renders the delta, lists the pull request's comments, writes its        *)
(* comment and may send a usage record.  Runs on one pull request follow   *)
(* each other; the pull request's comments outlive a run, the runner's     *)
(* files do not.                                                           *)

\* runs of the action on the pull request
MaxRuns == 2

\* per_page: 100
PerPage == 100

\* updateExistingInput === '' ? true : updateExistingInput !== 'false'
UpdateExistingOnlyTrue(input) == input = "true"

UpdateExisting(input) == IF input = "" THEN TRUE ELSE input # "false"

\* enableUsageReportingInput && enableUsageReportingInput !== 'false'
EnableUsageReportingUnlessFalse(input) == input # "false"

EnableUsageReporting(input) == input # "" /\ input # "false"

UpdateInputs == {"", "false", "no"}

UsageInputs == {"", "false", "true"}

Config(token, apiKey, pull, update, usage) ==
  [githubToken |-> token, apiKey |-> apiKey, pull |-> pull,
   updateExistingInput |-> update, enableUsageReportingInput |-> usage,
   commentTitle |-> <<>>]

\* the inputs and the event of a run: everything present under each value
\* of the two switches, or one of the three required things missing
Configs ==
  {Config(TRUE, TRUE, TRUE, u, r) : u \in UpdateInputs, r \in UsageInputs}
  \cup {Config(FALSE, TRUE, TRUE, "", ""), Config(TRUE, FALSE, TRUE, "", ""),
        Config(TRUE, TRUE, FALSE, "", "")}

\* the commands of main in the order of their runCmd calls; the analyzer's
\* argument is the report it is told to write
CommandsBaseFirst ==
  <<[kind |-> "curl", arg |-> ""], [kind |-> "tar", arg |-> ""],
    [kind |-> "chmod", arg |-> ""],
    [kind |-> "checkout", arg |-> "base"], [kind |-> "synth", arg |-> ""],
    [kind |-> "analyzer", arg |-> "base"],
    [kind |-> "checkout", arg |-> "head"], [kind |-> "synth", arg |-> ""],
    [kind |-> "analyzer", arg |-> "head"]>>

Commands ==
  <<[kind |-> "curl", arg |-> ""], [kind |-> "tar", arg |-> ""],
    [kind |-> "chmod", arg |-> ""],
    [kind |-> "synth", arg |-> ""], [kind |-> "analyzer", arg |-> "head"],
    [kind |-> "checkout", arg |-> "base"], [kind |-> "synth", arg |-> ""],
    [kind |-> "analyzer", arg |-> "base"],
    [kind |-> "checkout", arg |-> "head"]>>

\* a runner at the start of a job: the head commit checked out, no reports
FreshRunner == [step |-> 1, checkout |-> "head", written |-> {}]

\* a command or request of the run: what, with which argument, on which
\* checkout, and whether it succeeded
Call(kind, arg, ok) ==
  [kind |-> kind, arg |-> arg, at |-> runner.checkout, ok |-> ok]

\* the value of the api_key input (or CLOUDCOST_API_KEY), when it is set
ApiKeyValue == "cc_live_0123"

\* the command string of a runCmd call, as the pieces of its template
\* literal: the analyzer's carries --api-key "${apiKey}"
CommandText(c) ==
  IF c.kind = "curl" THEN <<"curl -sSL \"", "analyzerUrl", "\" -o \"", "archivePath", "\"">>
  ELSE IF c.kind = "tar" THEN <<"tar -xzf \"", "archivePath", "\" -C \"", "analyzerDir", "\"">>
  ELSE IF c.kind = "chmod" THEN <<"chmod +x \"", "analyzerPath", "\"">>
  ELSE IF c.kind = "synth" THEN <<"npx cdk synth --quiet">>
  ELSE IF c.kind = "checkout" THEN <<"git checkout ", c.arg>>
  ELSE <<"\"", "analyzerPath", "\" --cdk-out ./cdk.out --region ", "region",
         " --usage-profile ", "usageProfile", " --out-json \"", c.arg,
         "\" --out-md \"", c.arg, "\" --api-key \"", ApiKeyValue,
         "\" --backend-url \"", "backendUrl", "\"">>

\* runCmd: core.info(`$ ${cmd}`)
InfoLine(cmd) == <<"$ ">> \o cmd

\* runCmd: new Error(`Command failed: ${cmd}`), which the catch of main hands
\* to core.setFailed
ErrorMessage(cmd) == <<"Command failed: ">> \o cmd

\* String.prototype.includes
Includes(s, sub) ==
  \E i \in 0..(Len(s) - Len(sub)) : SubSeq(s, i + 1, i + Len(sub)) = sub

\* the comments listComments returns: the first page
FirstPage(cs) == SubSeq(cs, 1, IF Len(cs) < PerPage THEN Len(cs) ELSE PerPage)

\* comments.data.find((c) => c.body && c.body.includes(marker))
FindExisting(page) ==
  LET hits == {i \in 1..Len(page) : page[i].body # <<>> /\ Includes(page[i].body, marker)}
  IN  IF hits = {} THEN Absent
      ELSE Some(page[CHOOSE i \in hits : \A j \in hits : i <= j].id)

\* n comments of other users
OtherComments(n) == [i \in 1..n |-> [id |-> i, body |-> <<"o", "k">>]]

\* the reports the analyzer writes in a run: the head total grows from run
\* to run
ReportOfRun(side) ==
  IF side = "base" THEN FormatReport(0) ELSE FormatReport(1000 * (Len(runs) + 1))

\* core.setFailed(...); return, or the catch of main
Fail ==
  /\ failed' = TRUE
  /\ pc' = "end"

\* main without the three checks of its inputs
ReadConfigUnchecked ==
  /\ pc = "config"
  /\ pc' = "commands"
  /\ commentTitle' = IF inputs.commentTitle = <<>> THEN DefaultTitle
                     ELSE inputs.commentTitle
  /\ UNCHANGED <<baseReport, headReport, delta, markdown, inputs, runner,
                 calls, failed, existing, comments, runs>>
  /\ UNCHANGED scriptVars

\* main up to const baseSha: the inputs and the three checks
ReadConfig ==
  /\ pc = "config"
  /\ IF inputs.githubToken /\ inputs.apiKey /\ inputs.pull
       THEN /\ pc' = "commands"
            /\ commentTitle' = IF inputs.commentTitle = <<>> THEN DefaultTitle
                               ELSE inputs.commentTitle
            /\ UNCHANGED failed
       ELSE /\ Fail
            /\ UNCHANGED commentTitle
  /\ UNCHANGED <<baseReport, headReport, delta, markdown, inputs, runner,
                 calls, existing, comments, runs>>
  /\ UNCHANGED scriptVars

\* the effect of a command that succeeded on the runner
AfterCommand(c) ==
  [step |-> runner.step + 1,
   checkout |-> IF c.kind = "checkout" THEN c.arg ELSE runner.checkout,
   written |-> IF c.kind = "analyzer" THEN runner.written \cup {c.arg}
               ELSE runner.written]

\* runCmd that does not rethrow: main goes on after a command that failed
RunCommandIgnoreFailure ==
  /\ pc = "commands"
  /\ LET c == Commands[runner.step]
     IN  /\ \E ok \in BOOLEAN : calls' = Append(calls, Call(c.kind, c.arg, ok))
         /\ runner' = AfterCommand(c)
         /\ output' = Append(output, InfoLine(CommandText(c)))
         /\ pc' = IF runner.step = Len(Commands) THEN "read" ELSE "commands"
  /\ UNCHANGED <<baseReport, headReport, delta, commentTitle, markdown,
                 inputs, failed, existing, comments, runs>>
  /\ UNCHANGED <<exitCode, changedFiles, files>>

\* runCmd(...): the next command of main runs to its end and succeeds or
\* fails
RunCommand ==
  /\ pc = "commands"
  /\ LET c == Commands[runner.step]
     IN  \/ /\ calls' = Append(calls, Call(c.kind, c.arg, TRUE))
            /\ runner' = AfterCommand(c)
            /\ output' = Append(output, InfoLine(CommandText(c)))
            /\ pc' = IF runner.step = Len(Commands) THEN "read" ELSE "commands"
            /\ UNCHANGED failed
         \/ /\ calls' = Append(calls, Call(c.kind, c.arg, FALSE))
            /\ Fail
            /\ output' = output \o <<InfoLine(CommandText(c)),
                                     ErrorMessage(CommandText(c))>>
            /\ UNCHANGED runner
  /\ UNCHANGED <<baseReport, headReport, delta, commentTitle, markdown,
                 inputs, existing, comments, runs>>
  /\ UNCHANGED <<exitCode, changedFiles, files>>

\* const baseReport = readJson(baseJson); const headReport = readJson(headJson)
ReadReports ==
  /\ pc = "read"
  /\ \/ /\ {"base", "head"} \subseteq runner.written
        /\ baseReport' = ReportOfRun("base")
        /\ headReport' = ReportOfRun("head")
        /\ pc' = "start"
        /\ UNCHANGED failed
     \/ /\ Fail
        /\ UNCHANGED <<baseReport, headReport>>
  /\ UNCHANGED <<delta, commentTitle, markdown, inputs, runner, calls,
                 existing, comments, runs>>
  /\ UNCHANGED scriptVars

\* upsertPrComment up to const existing
ListComments ==
  /\ pc = "rendered"
  /\ \/ /\ calls' = Append(calls, Call("listComments", "", TRUE))
        /\ existing' = FindExisting(FirstPage(comments))
        /\ pc' = "listed"
        /\ UNCHANGED failed
     \/ /\ calls' = Append(calls, Call("listComments", "", FALSE))
        /\ Fail
        /\ UNCHANGED existing
  /\ UNCHANGED <<baseReport, headReport, delta, commentTitle, markdown,
                 inputs, runner, comments, runs>>
  /\ UNCHANGED scriptVars

\* updateComment({comment_id: existing.id, body: commentBody})
UpdateComment(cs, id, body) ==
  [i \in 1..Len(cs) |-> IF cs[i].id = id THEN [cs[i] EXCEPT !.body = body] ELSE cs[i]]

\* createComment({issue_number, body: commentBody})
CreateComment(cs, body) == Append(cs, [id |-> Len(cs) + 1, body |-> body])

\* upsertPrComment from if (existing && updateExisting)
WriteComment ==
  /\ pc = "listed"
  /\ LET kind == IF existing # Absent /\ UpdateExisting(inputs.updateExistingInput)
                   THEN "updateComment" ELSE "createComment"
     IN  \/ /\ calls' = Append(calls, Call(kind, "", TRUE))
            /\ comments' = IF kind = "updateComment"
                             THEN UpdateComment(comments, existing[1], markdown[1])
                             ELSE CreateComment(comments, markdown[1])
            /\ pc' = "written"
            /\ UNCHANGED failed
         \/ /\ calls' = Append(calls, Call(kind, "", FALSE))
            /\ Fail
            /\ UNCHANGED comments
  /\ UNCHANGED <<baseReport, headReport, delta, commentTitle, markdown,
                 inputs, runner, existing, runs>>
  /\ UNCHANGED scriptVars

\* if (enableUsageReporting) { try { await fetch(usageUrl, ...) } catch
\* (err) { core.warning(...) } }
SendUsage ==
  /\ pc = "written"
  /\ IF EnableUsageReporting(inputs.enableUsageReportingInput)
       THEN \E ok \in BOOLEAN : calls' = Append(calls, Call("usage", "", ok))
       ELSE UNCHANGED calls
  /\ pc' = "end"
  /\ UNCHANGED <<baseReport, headReport, delta, commentTitle, markdown,
                 inputs, runner, failed, existing, comments, runs>>
  /\ UNCHANGED scriptVars

\* the next run of the workflow on the pull request starts on a fresh runner
NextRun ==
  /\ pc = "end"
  /\ Len(runs) < MaxRuns - 1
  /\ runs' = Append(runs, [updateExistingInput |-> inputs.updateExistingInput,
                           failed |-> failed])
  /\ inputs' \in Configs
  /\ runner' = FreshRunner
  /\ calls' = <<>>
  /\ failed' = FALSE
  /\ existing' = Absent
  /\ baseReport' = Nothing
  /\ headReport' = Nothing
  /\ delta' = Absent
  /\ commentTitle' = Absent
  /\ markdown' = Absent
  /\ pc' = "config"
  /\ UNCHANGED comments
  /\ output' = <<>>
  /\ UNCHANGED <<exitCode, changedFiles, files>>

\* the first run starts on a pull request with no, 99 or 100 comments of
\* other users
InitMain ==
  /\ inputs \in Configs
  /\ runner = FreshRunner
  /\ calls = <<>>
  /\ failed = FALSE
  /\ existing = Absent
  /\ comments \in {OtherComments(n) : n \in {0, PerPage - 1, PerPage}}
  /\ runs = <<>>
  /\ output = <<>>
  /\ exitCode = Absent
  /\ changedFiles = <<>>
  /\ files = <<>>
  /\ baseReport = Nothing
  /\ headReport = Nothing
  /\ delta = Absent
  /\ commentTitle = Absent
  /\ markdown = Absent
  /\ pc = "config"

Next == Compute

NextRender == Compute \/ Render

Spec == InitItems /\ [][Next]_vars

SpecStacks == InitStacks /\ [][Next]_vars

SpecSame == InitSame /\ [][Next]_vars

SpecNotes == InitNotes /\ [][Next]_vars

SpecDefaults == InitDefaults /\ [][Next]_vars

SpecRender == InitRender /\ [][NextRender]_vars

NextMain ==
  \/ ReadConfig
  \/ RunCommand
  \/ ReadReports
  \/ Compute
  \/ Render
  \/ ListComments
  \/ WriteComment
  \/ SendUsage
  \/ NextRun

SpecMain == InitMain /\ [][NextMain]_vars

----------------------------------------------------------------------------
(* Two runs of the action on one pull request at the same time, each on    *)
(* its own runner, from the point where each has rendered its markdown:    *)
(* the requests of their upsertPrComment calls reach GitHub in any order.  *)
(* Here pc, inputs, markdown, existing and failed hold one value per run,  *)
(* and calls is the order in which GitHub serves the requests.             *)

Overlapping == {1, 2}

\* the markdown a run has rendered: the runs differ in the head total
MarkdownOfRun(r) ==
  renderMarkdown(computeDelta(FormatReport(0), FormatReport(1000 * r)), DefaultTitle)

\* a comment an earlier run of the action has left
EarlierComment ==
  [id |-> 1, body |-> renderMarkdown(computeDelta(FormatReport(0), FormatReport(0)), DefaultTitle)]

\* a request of one of the runs
CallOf(r, kind, ok) == [run |-> r, kind |-> kind, ok |-> ok]

\* upsertPrComment of run r up to const existing
ListCommentsOf(r) ==
  /\ pc[r] = "rendered"
  /\ \/ /\ calls' = Append(calls, CallOf(r, "listComments", TRUE))
        /\ existing' = [existing EXCEPT ![r] = FindExisting(FirstPage(comments))]
        /\ pc' = [pc EXCEPT ![r] = "listed"]
        /\ UNCHANGED failed
     \/ /\ calls' = Append(calls, CallOf(r, "listComments", FALSE))
        /\ failed' = [failed EXCEPT ![r] = TRUE]
        /\ pc' = [pc EXCEPT ![r] = "end"]
        /\ UNCHANGED existing
  /\ UNCHANGED <<baseReport, headReport, delta, commentTitle, markdown,
                 inputs, runner, comments, runs>>
  /\ UNCHANGED scriptVars

\* upsertPrComment of run r from if (existing && updateExisting)
WriteCommentOf(r) ==
  /\ pc[r] = "listed"
  /\ LET kind == IF existing[r] # Absent /\ UpdateExisting(inputs[r].updateExistingInput)
                   THEN "updateComment" ELSE "createComment"
     IN  \/ /\ calls' = Append(calls, CallOf(r, kind, TRUE))
            /\ comments' = IF kind = "updateComment"
                             THEN UpdateComment(comments, existing[r][1], markdown[r][1])
                             ELSE CreateComment(comments, markdown[r][1])
            /\ pc' = [pc EXCEPT ![r] = "written"]
            /\ UNCHANGED failed
         \/ /\ calls' = Append(calls, CallOf(r, kind, FALSE))
            /\ failed' = [failed EXCEPT ![r] = TRUE]
            /\ pc' = [pc EXCEPT ![r] = "end"]
            /\ UNCHANGED comments
  /\ UNCHANGED <<baseReport, headReport, delta, commentTitle, markdown,
                 inputs, runner, existing, runs>>
  /\ UNCHANGED scriptVars

\* both runs have rendered; the pull request has no comment, a comment of
\* another user, or the comment of an earlier run
InitOverlap ==
  /\ pc = [r \in Overlapping |-> "rendered"]
  /\ inputs \in [Overlapping -> {Config(TRUE, TRUE, TRUE, u, "") : u \in UpdateInputs}]
  /\ markdown = [r \in Overlapping |-> Some(MarkdownOfRun(r))]
  /\ existing = [r \in Overlapping |-> Absent]
  /\ failed = [r \in Overlapping |-> FALSE]
  /\ calls = <<>>
  /\ comments \in {<<>>, OtherComments(1), <<EarlierComment>>}
  /\ commentTitle = DefaultTitle
  /\ runner = Nothing
  /\ runs = <<>>
  /\ baseReport = Nothing
  /\ headReport = Nothing
  /\ delta = Absent
  /\ output = <<>>
  /\ exitCode = Absent
  /\ changedFiles = <<>>
  /\ files = <<>>

NextOverlap == \E r \in Overlapping : ListCommentsOf(r) \/ WriteCommentOf(r)

SpecOverlap == InitOverlap /\ [][NextOverlap]_vars

----------------------------------------------------------------------------
(* scripts/post-markdown.js.  A run reads the comment file, lists the pull *)
(* request's comments, and updates the comment that carries its marker or  *)
(* creates one.  Runs on one pull request follow each other.  Here         *)
(* markdown is the content of the comment file, existing is const mine,    *)
(* and exitCode is set when the process has ended.                         *)

\* const MARK = "<!-- cloudcost-cfn-comment -->"
MARK ==
  <<"<", "!", "-", "-", " ", "c", "l", "o", "u", "d", "c", "o", "s", "t",
    "-", "c", "f", "n", "-", "c", "o", "m", "m", "e", "n", "t", " ", "-",
    "-", ">">>

\* the comments of a page of GET /issues/{pr}/comments when the request
\* names no per_page
DefaultPerPage == 30

\* const finalBody = `${body}\n\n${MARK}`
finalBodyMarkFirst(body) == MARK \o <<NL, NL>> \o body

finalBody(body) == body \o <<NL, NL>> \o MARK

\* the content of the comment file of a run: it differs from run to run
CommentFiles ==
  {<<"c", "o", "s", "t", " ">> \o Digits(Len(runs) + 1) \o tail : tail \in {<<>>, <<NL>>}}

\* the comments the list request returns: the first page
ListedPage(cs) ==
  SubSeq(cs, 1, IF Len(cs) < DefaultPerPage THEN Len(cs) ELSE DefaultPerPage)

\* comments.find(c => (c.body || "").includes(MARK))
MineAny(page) == IF page = <<>> THEN Absent ELSE Some(page[1].id)

Mine(page) ==
  LET hits == {i \in 1..Len(page) : Includes(page[i].body, MARK)}
  IN  IF hits = {} THEN Absent
      ELSE Some(page[CHOOSE i \in hits : \A j \in hits : i <= j].id)

\* a request of the script, or its exit when the request fails in transit
\* and the rejected promise is not caught
Crash ==
  /\ exitCode' = Some(1)
  /\ pc' = "end"

\* const list = await gh(...); const comments = JSON.parse(...); const mine
PostList ==
  /\ pc = "list"
  /\ \/ /\ calls' = Append(calls, [kind |-> "GET", ok |-> TRUE])
        /\ existing' = Mine(ListedPage(comments))
        /\ pc' = "write"
        /\ UNCHANGED exitCode
     \/ /\ calls' = Append(calls, [kind |-> "GET", ok |-> FALSE])
        /\ Crash
        /\ UNCHANGED existing
  /\ UNCHANGED <<baseReport, headReport, delta, commentTitle, markdown, inputs,
                 runner, failed, comments, runs, output, changedFiles, files>>

\* if (mine) { await gh(..., "PATCH", ...) } else { await gh(..., "POST", ...) }
PostWrite ==
  /\ pc = "write"
  /\ LET method == IF existing # Absent THEN "PATCH" ELSE "POST"
     IN  \/ /\ calls' = Append(calls, [kind |-> method, ok |-> TRUE])
            /\ comments' = IF method = "PATCH"
                             THEN UpdateComment(comments, existing[1], finalBody(markdown[1]))
                             ELSE CreateComment(comments, finalBody(markdown[1]))
            /\ output' = Append(output, IF method = "PATCH"
                                          THEN "Updated existing PR comment."
                                          ELSE "Created PR comment.")
            /\ exitCode' = Some(0)
            /\ pc' = "end"
         \/ /\ calls' = Append(calls, [kind |-> method, ok |-> FALSE])
            /\ Crash
            /\ UNCHANGED <<comments, output>>
  /\ UNCHANGED <<baseReport, headReport, delta, commentTitle, markdown, inputs,
                 runner, failed, existing, runs, changedFiles, files>>

\* the next run of the workflow on the pull request
PostNextRun ==
  /\ pc = "end"
  /\ Len(runs) < MaxRuns - 1
  /\ runs' = Append(runs, [exitCode |-> exitCode])
  /\ markdown' \in {Some(f) : f \in CommentFiles}'
  /\ calls' = <<>>
  /\ existing' = Absent
  /\ output' = <<>>
  /\ exitCode' = Absent
  /\ pc' = "list"
  /\ UNCHANGED <<baseReport, headReport, delta, commentTitle, inputs, runner,
                 failed, comments, changedFiles, files>>

\* the first run starts on a pull request with no, 29 or 30 comments of
\* other users
InitPost ==
  /\ runs = <<>>
  /\ markdown \in {Some(f) : f \in CommentFiles}
  /\ comments \in {OtherComments(n) : n \in {0, DefaultPerPage - 1, DefaultPerPage}}
  /\ calls = <<>>
  /\ existing = Absent
  /\ output = <<>>
  /\ exitCode = Absent
  /\ pc = "list"
  /\ inputs = Nothing
  /\ runner = Nothing
  /\ failed = FALSE
  /\ baseReport = Nothing
  /\ headReport = Nothing
  /\ delta = Absent
  /\ commentTitle = Absent
  /\ changedFiles = <<>>
  /\ files = <<>>

NextPost == PostList \/ PostWrite \/ PostNextRun

SpecPost == InitPost /\ [][NextPost]_vars

----------------------------------------------------------------------------
(* verify-license.js.  The script asks the license endpoint, sets a commit *)
(* status, and without a license comments on the first pull request of the *)
(* commit and exits with code 1.  Here inputs holds the answers of the     *)
(* license endpoint and of the pull request listing, comments the comments *)
(* the script has posted, and a request that fails in transit rejects a    *)
(* promise nobody catches, which ends the process with code 1.             *)

\* const payUrl
payUrl == "https://cloudcost-action-api.vercel.app/pricing"

\* the target of the success status
dashboardUrl == "https://cloudcost-action-api.vercel.app/dashboard"

\* const msg, as the pieces of its template literal
msg ==
  <<"**CloudCost requires a license** No active license detected for ",
    "repo", ". **Fix:** [Purchase a license](", payUrl,
    "), add YOUR_API_KEY as a repo secret, then rerun the workflow.">>

\* res.status === 200
LicenseOkAny2xx(status) == status \in 200..299

LicenseOk(status) == status = 200

\* the answers of the license endpoint
LicenseStatuses == {200, 201, 401, 402, 500}

\* the answers of GET /commits/{sha}/pulls: a list of pull request numbers,
\* a JSON value that is no list, or text that is no JSON
PullsAnswers ==
  {[json |-> TRUE, list |-> TRUE, numbers |-> ns] : ns \in {<<>>, <<7>>, <<7, 8>>}}
  \cup {[json |-> TRUE, list |-> FALSE, numbers |-> <<>>],
        [json |-> FALSE, list |-> FALSE, numbers |-> <<>>]}

\* if(!pulls.length) return
NoPulls(answer) == ~answer.list \/ Len(answer.numbers) = 0

\* const res = await postJSON(".../api/v1/license/verify", ...)
Verify ==
  /\ pc = "verify"
  /\ \/ /\ calls' = Append(calls, [kind |-> "verify", arg |-> "", ok |-> TRUE])
        /\ pc' = "status"
        /\ UNCHANGED exitCode
     \/ /\ calls' = Append(calls, [kind |-> "verify", arg |-> "", ok |-> FALSE])
        /\ Crash
  /\ UNCHANGED <<baseReport, headReport, delta, commentTitle, markdown, inputs,
                 runner, failed, existing, comments, runs, output,
                 changedFiles, files>>

\* the body of the status request of the main function
StatusOf(status) ==
  IF LicenseOk(status)
    THEN [state |-> "success", description |-> "License verified",
          target_url |-> dashboardUrl]
    ELSE [state |-> "error", description |-> "License required - click to purchase",
          target_url |-> payUrl]

\* await setStatus(...), and with a license console.log("License OK"); return
SetStatus ==
  /\ pc = "status"
  /\ \/ /\ calls' = Append(calls, [kind |-> "status", arg |-> StatusOf(inputs.status),
                                   ok |-> TRUE])
        /\ IF LicenseOk(inputs.status)
             THEN /\ output' = Append(output, "License OK")
                  /\ exitCode' = Some(0)
                  /\ pc' = "end"
             ELSE /\ pc' = "pulls"
                  /\ UNCHANGED <<output, exitCode>>
     \/ /\ calls' = Append(calls, [kind |-> "status", arg |-> StatusOf(inputs.status),
                                   ok |-> FALSE])
        /\ Crash
        /\ UNCHANGED output
  /\ UNCHANGED <<baseReport, headReport, delta, commentTitle, markdown, inputs,
                 runner, failed, existing, comments, runs, changedFiles, files>>

\* commentPR up to const pr = pulls[0]
GetPulls ==
  /\ pc = "pulls"
  /\ \/ /\ calls' = Append(calls, [kind |-> "pulls", arg |-> "", ok |-> TRUE])
        /\ IF ~inputs.pulls.json
             THEN /\ Crash
                  /\ UNCHANGED existing
             ELSE /\ pc' = IF NoPulls(inputs.pulls) THEN "exit" ELSE "comment"
                  /\ existing' = IF NoPulls(inputs.pulls) THEN Absent
                                 ELSE Some(inputs.pulls.numbers[1])
                  /\ UNCHANGED exitCode
     \/ /\ calls' = Append(calls, [kind |-> "pulls", arg |-> "", ok |-> FALSE])
        /\ Crash
        /\ UNCHANGED existing
  /\ UNCHANGED <<baseReport, headReport, delta, commentTitle, markdown, inputs,
                 runner, failed, comments, runs, output, changedFiles, files>>

\* commentPR from const post
PostComment ==
  /\ pc = "comment"
  /\ \/ /\ calls' = Append(calls, [kind |-> "comment", arg |-> existing[1], ok |-> TRUE])
        /\ comments' = Append(comments, [pr |-> existing[1], body |-> msg])
        /\ pc' = "exit"
        /\ UNCHANGED exitCode
     \/ /\ calls' = Append(calls, [kind |-> "comment", arg |-> existing[1], ok |-> FALSE])
        /\ Crash
        /\ UNCHANGED comments
  /\ UNCHANGED <<baseReport, headReport, delta, commentTitle, markdown, inputs,
                 runner, failed, existing, runs, output, changedFiles, files>>

\* console.error("License required."); process.exit(1)
Exit ==
  /\ pc = "exit"
  /\ output' = Append(output, "License required.")
  /\ exitCode' = Some(1)
  /\ pc' = "end"
  /\ UNCHANGED <<baseReport, headReport, delta, commentTitle, markdown, inputs,
                 runner, calls, failed, existing, comments, runs,
                 changedFiles, files>>

InitLicense ==
  /\ inputs \in {[status |-> st, pulls |-> pa] : st \in LicenseStatuses, pa \in PullsAnswers}
  /\ pc = "verify"
  /\ calls = <<>>
  /\ comments = <<>>
  /\ existing = Absent
  /\ output = <<>>
  /\ exitCode = Absent
  /\ runs = <<>>
  /\ runner = Nothing
  /\ failed = FALSE
  /\ baseReport = Nothing
  /\ headReport = Nothing
  /\ delta = Absent
  /\ commentTitle = Absent
  /\ markdown = Absent
  /\ changedFiles = <<>>
  /\ files = <<>>

NextLicense == Verify \/ SetStatus \/ GetPulls \/ PostComment \/ Exit

SpecLicense == InitLicense /\ [][NextLicense]_vars

----------------------------------------------------------------------------
(* scripts/collect-cfn-diff.js.  The script lists the files that changed   *)
(* against the base ref, keeps those that look like CloudFormation         *)
(* templates by path or by content, and writes them as a payload.  Here    *)
(* inputs holds the base ref and the repository's changed files with their *)
(* contents on both sides, changedFiles the entries of const changed the   *)
(* loop has not looked at, files the loop's items, and output the payload. *)

\* changed files of a run
MaxChanged == 2

\* txt.slice(0, 4000)
SniffLimit == 4000

Upper ==
  <<"A", "C", "D", "E", "J", "L", "M", "N", "O", "P", "S", "T", "U", "X",
    "Y">>

Lower ==
  <<"a", "c", "d", "e", "j", "l", "m", "n", "o", "p", "s", "t", "u", "x",
    "y">>

\* String.prototype.toLowerCase, character by character
LowerChar(c) ==
  IF \E i \in 1..Len(Upper) : Upper[i] = c
    THEN Lower[CHOOSE i \in 1..Len(Upper) : Upper[i] = c]
    ELSE c

toLowerCase(t) == [i \in 1..Len(t) |-> LowerChar(t[i])]

\* String.prototype.endsWith
endsWith(t, suffix) ==
  Len(t) >= Len(suffix) /\ SubSeq(t, Len(t) - Len(suffix) + 1, Len(t)) = suffix

IsSpace(c) == c \in {" ", "\t", "\n"}

\* String.prototype.split(/\s+/) of a text that does not start with space
RECURSIVE SplitSpaces(_, _, _)
SplitSpaces(t, i, cur) ==
  IF i > Len(t) THEN <<cur>>
  ELSE IF IsSpace(t[i])
    THEN IF i > 1 /\ IsSpace(t[i - 1]) THEN SplitSpaces(t, i + 1, cur)
         ELSE <<cur>> \o SplitSpaces(t, i + 1, <<>>)
  ELSE SplitSpaces(t, i + 1, Append(cur, t[i]))

\* a line of git diff --name-status for a changed file
DiffLine(f) == <<f.status>> \o <<"\t">> \o f.path

\* const [status, ...rest] = line.split(/\s+/); const path = rest.pop()
ParseLine(line) ==
  LET parts == SplitSpaces(line, 1, <<>>)
  IN  [status |-> parts[1], path |-> parts[Len(parts)]]

TemplateJson ==
  <<"t", "e", "m", "p", "l", "a", "t", "e", ".", "j", "s", "o", "n">>

TemplateYml ==
  <<"t", "e", "m", "p", "l", "a", "t", "e", ".", "y", "m", "l">>

TemplateYaml ==
  <<"t", "e", "m", "p", "l", "a", "t", "e", ".", "y", "a", "m", "l">>

CdkOutDir ==
  <<"/", "c", "d", "k", ".", "o", "u", "t", "/">>

DotJson ==
  <<".", "j", "s", "o", "n">>

\* const looksLikeCFNPath: the first three alternatives of the source are
\* covered by the last three, each being the longer suffix
looksLikeCFNPath(p) ==
  LET lower == toLowerCase(p)
  IN  \/ endsWith(lower, <<".">> \o TemplateJson)
      \/ endsWith(lower, <<".">> \o TemplateYml)
      \/ endsWith(lower, <<".">> \o TemplateYaml)
      \/ endsWith(lower, TemplateJson)
      \/ endsWith(lower, TemplateYml)
      \/ endsWith(lower, TemplateYaml)
      \/ Includes(lower, CdkOutDir) /\ endsWith(lower, DotJson)

FormatVersion ==
  <<"A", "W", "S", "T", "e", "m", "p", "l", "a", "t", "e", "F", "o", "r",
    "m", "a", "t", "V", "e", "r", "s", "i", "o", "n">>

ResourcesWord ==
  <<"R", "e", "s", "o", "u", "r", "c", "e", "s">>

\* /(^|\n)Resources\s*:\s*/.test(head)
HasResourcesBlock(t) ==
  \E i \in 1..Len(t) :
    /\ i = 1 \/ t[i - 1] = "\n"
    /\ i + Len(ResourcesWord) - 1 <= Len(t)
    /\ SubSeq(t, i, i + Len(ResourcesWord) - 1) = ResourcesWord
    /\ \E j \in (i + Len(ResourcesWord))..Len(t) :
         /\ t[j] = ":"
         /\ \A k \in (i + Len(ResourcesWord))..(j - 1) : IsSpace(t[k])

\* const sniffCFN; txt is Absent for null
sniffCFN(txt) ==
  IF txt = Absent \/ txt = Some(<<>>) THEN FALSE
  ELSE LET head == SubSeq(txt[1], 1, IF Len(txt[1]) < SniffLimit THEN Len(txt[1]) ELSE SniffLimit)
       IN  Includes(head, FormatVersion) \/ HasResourcesBlock(head)

\* git show <ref>:"<p>": the content of the file of that path on that side,
\* Absent (null) when git show fails
ContentAt(side, p) ==
  LET hits == {i \in 1..Len(inputs.repo) : inputs.repo[i].path = p}
  IN  IF hits = {} THEN Absent
      ELSE inputs.repo[CHOOSE i \in hits : TRUE][side]

\* base || null
OrNull(txt) == IF txt = Some(<<>>) THEN Absent ELSE txt

\* the body of the loop after the path and content test
PayloadItem(c) ==
  LET base == OrNull(ContentAt("base", c.path))
      head == OrNull(ContentAt("head", c.path))
  IN  [path |-> c.path, status |-> c.status, base |-> base, head |-> head,
       meta |-> [base_present |-> base # Absent, head_present |-> head # Absent]]

\* if (!looksLikeCFNPath(path)) { ... if (!sniffCFN(hc) && !sniffCFN(bc)) continue; }
Keeps(c) ==
  \/ looksLikeCFNPath(c.path)
  \/ sniffCFN(ContentAt("head", c.path))
  \/ sniffCFN(ContentAt("base", c.path))

\* the script up to const changed
ListChanged ==
  /\ pc = "list"
  /\ IF inputs.baseRef = Absent
       THEN /\ output' = Append(output, "Usage: collect-cfn-diff.js <baseRef>")
            /\ exitCode' = Some(2)
            /\ pc' = "end"
            /\ UNCHANGED changedFiles
       ELSE \/ /\ changedFiles' = [i \in 1..Len(inputs.repo) |->
                                     ParseLine(DiffLine(inputs.repo[i]))]
               /\ pc' = "loop"
               /\ UNCHANGED <<output, exitCode>>
            \/ /\ Crash
               /\ UNCHANGED <<output, changedFiles>>
  /\ UNCHANGED <<baseReport, headReport, delta, commentTitle, markdown, inputs,
                 runner, calls, failed, existing, comments, runs, files>>

\* one turn of for (const { status, path } of changed)
CollectNext ==
  /\ pc = "loop"
  /\ changedFiles # <<>>
  /\ files' = IF Keeps(Head(changedFiles))
                THEN Append(files, PayloadItem(Head(changedFiles)))
                ELSE files
  /\ changedFiles' = Tail(changedFiles)
  /\ UNCHANGED <<baseReport, headReport, delta, pc, commentTitle, markdown,
                 inputs, runner, calls, failed, existing, comments, runs,
                 output, exitCode>>

\* const payload = {...}; process.stdout.write(gz)
WritePayload ==
  /\ pc = "loop"
  /\ changedFiles = <<>>
  /\ output' = Append(output, [files |-> files, signature |-> "cloudcost-cfn-diff-v1"])
  /\ exitCode' = Some(0)
  /\ pc' = "end"
  /\ UNCHANGED <<baseReport, headReport, delta, commentTitle, markdown, inputs,
                 runner, calls, failed, existing, comments, runs,
                 changedFiles, files>>

\* the paths of the changed files of the runs looked at
ChangedPaths ==
  {<<"a", "p", "p", ".", "t", "e", "m", "p", "l", "a", "t", "e", ".", "j",
  "s", "o", "n">>,
   <<"i", "n", "f", "r", "a", "/", "t", "e", "m", "p", "l", "a", "t", "e",
  ".", "y", "a", "m", "l">>,
   <<"i", "n", "f", "r", "a", "/", "c", "d", "k", ".", "o", "u", "t", "/",
  "S", ".", "j", "s", "o", "n">>,
   <<"c", "d", "k", ".", "o", "u", "t", "/", "S", ".", "j", "s", "o", "n">>,
   <<"s", "r", "c", "/", "a", "p", "p", ".", "j", "s">>,
   <<"X", ".", "T", "E", "M", "P", "L", "A", "T", "E", ".", "Y", "M", "L">>,
   <<"m", "y", " ", "a", "p", "p", "/", "x", ".", "t", "e", "m", "p", "l",
  "a", "t", "e", ".", "y", "m", "l">>}

PlainText ==
  <<"{", "\"", "a", "\"", ":", " ", "1", "}">>

YamlTemplate ==
  <<"R", "e", "s", "o", "u", "r", "c", "e", "s", " ", ":", "\n", " ", " ",
    "B", ":", " ", "{", "}">>

JsonTemplate ==
  <<"{", "\"", "A", "W", "S", "T", "e", "m", "p", "l", "a", "t", "e", "F",
    "o", "r", "m", "a", "t", "V", "e", "r", "s", "i", "o", "n", "\"", ":",
    " ", "\"", "2", "0", "1", "0", "\"", "}">>

\* the contents of a changed file on the two sides
ContentPairs ==
  {[base |-> Absent, head |-> Some(PlainText)],
   [base |-> Some(PlainText), head |-> Absent],
   [base |-> Some(<<>>), head |-> Some(YamlTemplate)],
   [base |-> Some(JsonTemplate), head |-> Some(PlainText)]}

RepoFiles ==
  {[status |-> IF c.base = Absent THEN "A" ELSE IF c.head = Absent THEN "D" ELSE "M",
    path |-> p, base |-> c.base, head |-> c.head] :
     p \in ChangedPaths, c \in ContentPairs}

\* sequences of changed files with distinct paths
ChangedLists(n) ==
  {fs \in [1..n -> RepoFiles] : \A i, j \in 1..n : i < j => fs[i].path # fs[j].path}

InitCollect ==
  /\ \/ /\ \E n \in 0..MaxChanged : \E fs \in ChangedLists(n) :
            inputs = [baseRef |-> Some("origin/main"), repo |-> fs]
     \/ inputs = [baseRef |-> Absent, repo |-> <<>>]
  /\ pc = "list"
  /\ changedFiles = <<>>
  /\ files = <<>>
  /\ output = <<>>
  /\ exitCode = Absent
  /\ calls = <<>>
  /\ comments = <<>>
  /\ existing = Absent
  /\ runs = <<>>
  /\ runner = Nothing
  /\ failed = FALSE
  /\ baseReport = Nothing
  /\ headReport = Nothing
  /\ delta = Absent
  /\ commentTitle = Absent
  /\ markdown = Absent

NextCollect == ListChanged \/ CollectNext \/ WritePayload

SpecCollect == InitCollect /\ [][NextCollect]_vars

----------------------------------------------------------------------------
(* What the reports say, read off the raw JSON without the index: the      *)
(* reference the claims are stated against.                                *)

Done == pc = "done"

\* the Delta computeDelta returned
D == delta[1]

RawStacks(report) == OrElse(report.stacks, <<>>)

RawNames(report) == {RawStacks(report)[i].name : i \in 1..Len(RawStacks(report))}

HasStack(report, name) == name \in RawNames(report)

\* the stack of that name (the last one, should a name repeat)
RawStack(report, name) ==
  LET ss == RawStacks(report)
      last == CHOOSE i \in 1..Len(ss) :
                /\ ss[i].name = name
                /\ \A j \in 1..Len(ss) : ss[j].name = name => j <= i
  IN  ss[last]

\* the stack's declared total, 0 when the stack or its total is missing
RawTotal(report, name) ==
  IF HasStack(report, name) THEN OrElse(RawStack(report, name).total_monthly_usd, 0) ELSE 0

RawItems(report, name) ==
  IF HasStack(report, name) THEN OrElse(RawStack(report, name).items, <<>>) ELSE <<>>

\* the declared grand total, or the sum of the declared stack totals
ResolvedTotal(report) ==
  IF report.grand_total_usd # Absent THEN report.grand_total_usd[1]
  ELSE SumSeq([i \in 1..Len(RawStacks(report)) |->
                 OrElse(RawStacks(report)[i].total_monthly_usd, 0)])

\* the stack delta emitted for a stack name
DeltasOf(name) == {i \in 1..Len(D.stacks) : D.stacks[i].stackName = name}

----------------------------------------------------------------------------
(* C2: the stack names of the delta are exactly the union of the stack     *)
(* names of base and head, each exactly once, and every StackDelta carries *)
(* base = the stack's total in base (0 if absent), head = its total in     *)
(* head (0 if absent) and diff = head - base, whatever its items are.      *)
C2_StackUnion ==
  Done =>
    /\ {D.stacks[i].stackName : i \in 1..Len(D.stacks)}
         = RawNames(baseReport) \cup RawNames(headReport)
    /\ \A name \in RawNames(baseReport) \cup RawNames(headReport) :
         Cardinality(DeltasOf(name)) = 1
    /\ \A i \in 1..Len(D.stacks) :
         LET sd == D.stacks[i]
         IN  /\ sd.base = RawTotal(baseReport, sd.stackName)
             /\ sd.head = RawTotal(headReport, sd.stackName)
             /\ sd.diff = RawTotal(headReport, sd.stackName)
                            - RawTotal(baseReport, sd.stackName)

\* a stack only in base, a stack in both with different totals, and a stack
\* whose total differs from the sum of its items
C2_Witness ==
  /\ Done
  /\ \E i, j \in 1..Len(D.stacks) :
       /\ ~HasStack(headReport, D.stacks[i].stackName)
       /\ D.stacks[i].base > 0
       /\ HasStack(baseReport, D.stacks[j].stackName)
       /\ HasStack(headReport, D.stacks[j].stackName)
       /\ D.stacks[j].base > 0 /\ D.stacks[j].head > 0 /\ D.stacks[j].diff # 0
       /\ D.stacks[j].items # <<>>
       /\ D.stacks[j].base
            # SumSeq(ItemCosts(RawItems(baseReport, D.stacks[j].stackName)))

(* C4: the delta always carries total = (resolved grand total of base,     *)
(* resolved grand total of head, head total - base total), also when the   *)
(* difference is 0, and whatever the stack deltas are.                     *)
C4_TotalAlwaysEmitted ==
  Done =>
    D.total = [base |-> ResolvedTotal(baseReport),
               head |-> ResolvedTotal(headReport),
               diff |-> ResolvedTotal(headReport) - ResolvedTotal(baseReport)]

\* the total diff is 0 although stacks changed, and is not the sum of the
\* stack diffs
C4_Witness ==
  /\ Done
  /\ D.total.diff = 0
  /\ D.total.base > 0
  /\ \E i \in 1..Len(D.stacks) : D.stacks[i].diff # 0
  /\ SumSeq([i \in 1..Len(D.stacks) |-> D.stacks[i].diff]) # 0

(* C9: the resolved grand total of a report is its declared grand total    *)
(* whenever one is declared, an explicit 0 included; otherwise it is the   *)
(* sum of the per-stack totals, a stack without a total counting as 0.     *)
C9_GrandTotalResolution ==
  Done =>
    /\ baseReport.grand_total_usd # Absent => D.total.base = baseReport.grand_total_usd[1]
    /\ headReport.grand_total_usd # Absent => D.total.head = headReport.grand_total_usd[1]
    /\ baseReport.grand_total_usd = Absent =>
         D.total.base = SumSeq([i \in 1..Len(RawStacks(baseReport)) |->
                                  RawTotal(baseReport, RawStacks(baseReport)[i].name)])
    /\ headReport.grand_total_usd = Absent =>
         D.total.head = SumSeq([i \in 1..Len(RawStacks(headReport)) |->
                                  RawTotal(headReport, RawStacks(headReport)[i].name)])

\* base declares no grand total and has two stacks, one without a total;
\* head declares an explicit 0 although its stack totals sum to more
C9_Witness ==
  /\ Done
  /\ baseReport.grand_total_usd = Absent
  /\ Len(RawStacks(baseReport)) = 2
  /\ \E i \in 1..2 : RawStacks(baseReport)[i].total_monthly_usd = Absent
  /\ D.total.base > 0
  /\ headReport.grand_total_usd = Some(0)
  /\ \E i \in 1..Len(RawStacks(headReport)) : RawTotal(headReport, RawStacks(headReport)[i].name) > 0
  /\ D.total.head = 0

\* the place of a stack name in a report's stacks
RawStackPos(report, name) ==
  CHOOSE i \in 1..Len(RawStacks(report)) :
    /\ RawStacks(report)[i].name = name
    /\ \A j \in 1..Len(RawStacks(report)) : RawStacks(report)[j].name = name => i <= j

\* the place of a stack name in the union enumeration
UnionStackPos(name) ==
  IF HasStack(baseReport, name) THEN RawStackPos(baseReport, name)
  ELSE Len(RawStacks(baseReport)) + RawStackPos(headReport, name)

(* C8: delta.stacks is ordered by non-increasing absolute stack diff, and  *)
(* stacks of equal absolute diff keep the order of the stack union: the    *)
(* stack names of base in base order, then the head-only names in head     *)
(* order.                                                                  *)
C8_StackOrder ==
  Done =>
    \A i, j \in 1..Len(D.stacks) :
      i < j =>
        /\ Abs(D.stacks[i].diff) >= Abs(D.stacks[j].diff)
        /\ Abs(D.stacks[i].diff) = Abs(D.stacks[j].diff) =>
             UnionStackPos(D.stacks[i].stackName) < UnionStackPos(D.stacks[j].stackName)

\* three stacks: the last of the union has the largest diff and is emitted
\* first; the other two tie, with opposite signs, and keep their union order
\* (a base stack before a head-only stack)
C8_Witness ==
  /\ Done
  /\ Len(D.stacks) = 3
  /\ UnionStackPos(D.stacks[1].stackName) = 3
  /\ Abs(D.stacks[1].diff) > Abs(D.stacks[2].diff)
  /\ D.stacks[2].diff = -D.stacks[3].diff
  /\ D.stacks[2].diff < 0
  /\ HasStack(baseReport, D.stacks[2].stackName)
  /\ ~HasStack(baseReport, D.stacks[3].stackName)

----------------------------------------------------------------------------
(* Item-level reference: an item's identity is the ordered pair            *)
(* (service, logical_id); of several items of one stack with the same      *)
(* pair, the last in source order counts.                                  *)

PairOf(item) == <<item.service, item.logical_id>>

DeltaPair(d) == <<d.service, d.logicalId>>

RawPairs(report, name) ==
  {PairOf(RawItems(report, name)[i]) : i \in 1..Len(RawItems(report, name))}

\* the last item of the sequence with that pair
LastWithPair(items, pair) ==
  LET last == CHOOSE i \in 1..Len(items) :
                /\ PairOf(items[i]) = pair
                /\ \A j \in 1..Len(items) : PairOf(items[j]) = pair => j <= i
  IN  items[last]

\* the item's monthly cost on that side, 0 when the item or its stack is absent
PairVal(report, name, pair) ==
  IF pair \in RawPairs(report, name)
  THEN LastWithPair(RawItems(report, name), pair).monthly_usd
  ELSE 0

\* the item deltas of a StackDelta that carry the pair
DeltasWithPair(sd, pair) == {i \in 1..Len(sd.items) : DeltaPair(sd.items[i]) = pair}

(* C1: an item with identity key (service, logical_id) appears in the item *)
(* list of its stack's StackDelta iff headVal - baseVal is not 0, at most  *)
(* once, and every emitted ItemDelta has base = baseVal, head = headVal,   *)
(* diff = headVal - baseVal and stackName = the owning stack's name.       *)
C1_ItemIffDiff ==
  Done =>
    \A s \in 1..Len(D.stacks) :
      LET sd == D.stacks[s]
          name == sd.stackName
      IN  /\ \A pair \in RawPairs(baseReport, name) \cup RawPairs(headReport, name) :
               /\ Cardinality(DeltasWithPair(sd, pair)) <= 1
               /\ DeltasWithPair(sd, pair) # {}
                    <=> PairVal(headReport, name, pair) - PairVal(baseReport, name, pair) # 0
          /\ \A i \in 1..Len(sd.items) :
               LET d == sd.items[i]
               IN  /\ d.base = PairVal(baseReport, name, DeltaPair(d))
                   /\ d.head = PairVal(headReport, name, DeltaPair(d))
                   /\ d.diff = d.head - d.base
                   /\ d.stackName = name

\* the pairs of the stack whose cost on that side is c
PairsCosting(report, name, c) ==
  {pair \in RawPairs(report, name) : PairVal(report, name, pair) = c}

(* C5: a stack present in base and absent from head has the StackDelta     *)
(* {base: its total, head: 0, diff: -total}, and every base item of        *)
(* non-zero cost c yields exactly one ItemDelta {base: c, head: 0,         *)
(* diff: -c}; symmetrically for a stack present only in head.  Items are   *)
(* counted per identity pair, the last item of a pair giving its cost.     *)
C5_OneSidedStack ==
  Done =>
    \A s \in 1..Len(D.stacks) :
      LET sd == D.stacks[s]
          name == sd.stackName
      IN  /\ (HasStack(baseReport, name) /\ ~HasStack(headReport, name)) =>
               /\ sd.base = RawTotal(baseReport, name)
               /\ sd.head = 0
               /\ sd.diff = -RawTotal(baseReport, name)
               /\ \A c \in Usd \ {0} :
                    Cardinality({i \in 1..Len(sd.items) :
                                   /\ sd.items[i].base = c
                                   /\ sd.items[i].head = 0
                                   /\ sd.items[i].diff = -c})
                      = Cardinality(PairsCosting(baseReport, name, c))
          /\ (HasStack(headReport, name) /\ ~HasStack(baseReport, name)) =>
               /\ sd.base = 0
               /\ sd.head = RawTotal(headReport, name)
               /\ sd.diff = RawTotal(headReport, name)
               /\ \A c \in Usd \ {0} :
                    Cardinality({i \in 1..Len(sd.items) :
                                   /\ sd.items[i].base = 0
                                   /\ sd.items[i].head = c
                                   /\ sd.items[i].diff = c})
                      = Cardinality(PairsCosting(headReport, name, c))

\* what an item delta says about one key
Projection(d) ==
  [stackName |-> d.stackName, service |-> d.service, logicalId |-> d.logicalId,
   base |-> d.base, head |-> d.head, diff |-> d.diff]

Swapped(p) == [p EXCEPT !.base = p.head, !.head = p.base, !.diff = -p.diff]

\* the places (stack, item) of a delta's item deltas
ItemPlaces(dl) ==
  UNION {{<<s, i>> : i \in 1..Len(dl.stacks[s].items)} : s \in 1..Len(dl.stacks)}

ItemAt(dl, pl) == dl.stacks[pl[1]].items[pl[2]]

EmittedKeys(dl) ==
  {<<ItemAt(dl, pl).stackName, ItemAt(dl, pl).service, ItemAt(dl, pl).logicalId>> :
     pl \in ItemPlaces(dl)}

\* how many item deltas of dl say p
CountOf(dl, p) == Cardinality({pl \in ItemPlaces(dl) : Projection(ItemAt(dl, pl)) = p})

(* C6: computeDelta(A, B).total.diff = -computeDelta(B, A).total.diff, the *)
(* two deltas emit the same set of (stack, identity key) item deltas, and  *)
(* every item delta of one direction is an item delta of the other with    *)
(* base and head swapped and diff negated (as many times in each).         *)
C6_Symmetry ==
  Done =>
    LET R == computeDelta(headReport, baseReport)
    IN  /\ D.total.diff = -R.total.diff
        /\ EmittedKeys(D) = EmittedKeys(R)
        /\ \A pl \in ItemPlaces(D) :
             CountOf(R, Swapped(Projection(ItemAt(D, pl))))
               = CountOf(D, Projection(ItemAt(D, pl)))
        /\ \A pl \in ItemPlaces(R) :
             CountOf(D, Swapped(Projection(ItemAt(R, pl))))
               = CountOf(R, Projection(ItemAt(R, pl)))

\* a stack with a repriced item (both costs non-zero) and a removed item
C6_Witness ==
  /\ Done
  /\ D.total.diff # 0
  /\ \E s \in 1..Len(D.stacks) : \E i, j \in 1..Len(D.stacks[s].items) :
       /\ D.stacks[s].items[i].base > 0 /\ D.stacks[s].items[i].head > 0
       /\ D.stacks[s].items[j].base > 0 /\ D.stacks[s].items[j].head = 0

\* the keys of the base stack's items, then those of the head stack's items
UnionKeyList(name) ==
  [i \in 1..Len(RawItems(baseReport, name)) |-> ItemKey(RawItems(baseReport, name)[i])]
  \o [i \in 1..Len(RawItems(headReport, name)) |-> ItemKey(RawItems(headReport, name)[i])]

\* the place of a key in the union enumeration: its first occurrence
UnionKeyPos(name, k) ==
  CHOOSE i \in 1..Len(UnionKeyList(name)) :
    /\ UnionKeyList(name)[i] = k
    /\ \A j \in 1..Len(UnionKeyList(name)) : UnionKeyList(name)[j] = k => i <= j

\* the cost the report gives the key: that of the last item of the stack with it
KeyVal(report, name, k) ==
  LET items == RawItems(report, name)
      idx == {i \in 1..Len(items) : ItemKey(items[i]) = k}
  IN  IF idx = {} THEN 0
      ELSE items[CHOOSE i \in idx : \A j \in idx : j <= i].monthly_usd

\* d is the item delta of key k
DeltaOfKey(d, name, k) ==
  /\ d.service = KeyParts(k).service
  /\ d.logicalId = KeyParts(k).logicalId
  /\ d.base = KeyVal(baseReport, name, k)
  /\ d.head = KeyVal(headReport, name, k)

(* C7: within every StackDelta the item deltas are ordered by              *)
(* non-increasing absolute diff, and items of equal absolute diff keep     *)
(* the order of the item union: the keys of the base stack in base index   *)
(* order, then the head-only keys in head index order.                     *)
C7_ItemOrder ==
  Done =>
    \A s \in 1..Len(D.stacks) :
      LET sd == D.stacks[s]
          name == sd.stackName
      IN  \E f \in [1..Len(sd.items) -> Range(UnionKeyList(name))] :
            /\ \A i \in 1..Len(sd.items) : DeltaOfKey(sd.items[i], name, f[i])
            /\ \A i, j \in 1..Len(sd.items) :
                 i < j =>
                   /\ f[i] # f[j]
                   /\ Abs(sd.items[i].diff) >= Abs(sd.items[j].diff)
                   /\ Abs(sd.items[i].diff) = Abs(sd.items[j].diff) =>
                        UnionKeyPos(name, f[i]) < UnionKeyPos(name, f[j])

\* union order X, Y, Z with |X| = |Y| < |Z| is emitted as Z, X, Y
C7_Witness ==
  /\ Done
  /\ \E s \in 1..Len(D.stacks) :
       LET sd == D.stacks[s]
           L == UnionKeyList(sd.stackName)
       IN  /\ Len(L) = 3
           /\ L[1] # L[2] /\ L[1] # L[3] /\ L[2] # L[3]
           /\ Len(sd.items) = 3
           /\ DeltaOfKey(sd.items[1], sd.stackName, L[3])
           /\ DeltaOfKey(sd.items[2], sd.stackName, L[1])
           /\ DeltaOfKey(sd.items[3], sd.stackName, L[2])
           /\ Abs(sd.items[1].diff) > Abs(sd.items[2].diff)
           /\ Abs(sd.items[2].diff) = Abs(sd.items[3].diff)
           /\ sd.items[2] # sd.items[3]

\* the pairs that several items of the stack carry
DuplicatedPairs(report, name) ==
  {pair \in RawPairs(report, name) :
     Cardinality({i \in 1..Len(RawItems(report, name)) :
                    PairOf(RawItems(report, name)[i]) = pair}) >= 2}

\* the item computeDelta takes for an identity: stack?.items.get(key)
ItemTakenFor(report, name, pair) ==
  StackItem(MapGet(indexReport(report).stacks, name),
            ItemKey([service |-> pair[1], logical_id |-> pair[2]]))

\* cost, cdk_path and notes of an item
Payload(item) ==
  [monthly_usd |-> item.monthly_usd, cdk_path |-> item.cdk_path, notes |-> item.notes]

\* the report's duplicated pairs of the stack are served by their last item
LastDuplicateTaken(report, name) ==
  \A pair \in DuplicatedPairs(report, name) :
    /\ ItemTakenFor(report, name, pair) # Absent
    /\ Payload(ItemTakenFor(report, name, pair)[1])
         = Payload(LastWithPair(RawItems(report, name), pair))

(* C10: when two items of one stack of one report share the same           *)
(* (service, logical_id), the later item in source order is the only one   *)
(* used: the item computeDelta takes for that key, with its cost, cdk_path *)
(* and notes, is the last duplicate, and the key yields at most one        *)
(* ItemDelta.                                                              *)
C10_LastDuplicateWins ==
  Done =>
    \A s \in 1..Len(D.stacks) :
      LET sd == D.stacks[s]
          name == sd.stackName
      IN  /\ LastDuplicateTaken(baseReport, name)
          /\ LastDuplicateTaken(headReport, name)
          /\ \A pair \in DuplicatedPairs(baseReport, name) \cup DuplicatedPairs(headReport, name) :
               /\ Cardinality(DeltasWithPair(sd, pair)) <= 1
               /\ \A i \in DeltasWithPair(sd, pair) :
                    /\ sd.items[i].base = PairVal(baseReport, name, pair)
                    /\ sd.items[i].head = PairVal(headReport, name, pair)

----------------------------------------------------------------------------
(* Annotations of an emitted item delta.  "The head item" of an item delta *)
(* is the item the head report gives for the delta's key: the last item of *)
(* the head stack with that key; likewise for base.                        *)

\* the last item of the stack with that key, if any
LastWithKey(report, name, k) ==
  LET items == RawItems(report, name)
      idx == {i \in 1..Len(items) : ItemKey(items[i]) = k}
  IN  IF idx = {} THEN Absent
      ELSE Some(items[CHOOSE i \in idx : \A j \in idx : j <= i])

\* the item has the field
Has(optItem, f) == optItem # Absent /\ optItem[1][f] # Absent

\* the item has the field, and it is not the empty string
HasNonEmpty(optItem, f) == Has(optItem, f) /\ optItem[1][f][1] # <<>>

\* head's field if head has it, else base's if base has it, else absent
PreferHead(baseItem, headItem, f) ==
  IF Has(headItem, f) THEN headItem[1][f]
  ELSE IF Has(baseItem, f) THEN baseItem[1][f]
  ELSE Absent

\* head's field if head has a non-empty one, else base's if non-empty, else absent
PreferHeadNonEmpty(baseItem, headItem, f) ==
  IF HasNonEmpty(headItem, f) THEN headItem[1][f]
  ELSE IF HasNonEmpty(baseItem, f) THEN baseItem[1][f]
  ELSE Absent

\* the keys of the stack's items in either report
UnionKeys(name) == Range(UnionKeyList(name))

(* C11 as stated: for every emitted ItemDelta, cdkPath is the head item's  *)
(* cdk_path if the head item has one (whatever string it is), otherwise    *)
(* the base item's, otherwise absent; notes is the head item's notes if it *)
(* has notes, otherwise the base item's, otherwise an empty sequence.      *)
C11_Original ==
  Done =>
    \A s \in 1..Len(D.stacks) : \A i \in 1..Len(D.stacks[s].items) :
      LET name == D.stacks[s].stackName
          d == D.stacks[s].items[i]
      IN  \E k \in UnionKeys(name) :
            LET b == LastWithKey(baseReport, name, k)
                h == LastWithKey(headReport, name, k)
            IN  /\ DeltaOfKey(d, name, k)
                /\ d.cdkPath = PreferHead(b, h, "cdk_path")
                /\ d.notes = OrElse(PreferHead(b, h, "notes"), <<>>)

(* C11 as amended: cdkPath is the head item's cdk_path if the head item    *)
(* has a non-empty one, otherwise the base item's cdk_path if that is      *)
(* non-empty, otherwise absent; notes is the head item's notes if it has   *)
(* notes (an empty list included), otherwise the base item's notes,        *)
(* otherwise an empty sequence.                                            *)
C11_Annotations ==
  Done =>
    \A s \in 1..Len(D.stacks) : \A i \in 1..Len(D.stacks[s].items) :
      LET name == D.stacks[s].stackName
          d == D.stacks[s].items[i]
      IN  \E k \in UnionKeys(name) :
            LET b == LastWithKey(baseReport, name, k)
                h == LastWithKey(headReport, name, k)
            IN  /\ DeltaOfKey(d, name, k)
                /\ d.cdkPath = PreferHeadNonEmpty(b, h, "cdk_path")
                /\ d.notes = OrElse(PreferHead(b, h, "notes"), <<>>)

\* an item delta whose head item has the empty path and empty notes while
\* its base item has a path and notes: the path is base's, the notes head's
C11_Witness ==
  /\ Done
  /\ \E s \in 1..Len(D.stacks) : \E i \in 1..Len(D.stacks[s].items) :
       LET name == D.stacks[s].stackName
           d == D.stacks[s].items[i]
       IN  \E k \in UnionKeys(name) :
             LET b == LastWithKey(baseReport, name, k)
                 h == LastWithKey(headReport, name, k)
             IN  /\ DeltaOfKey(d, name, k)
                 /\ h # Absent /\ h[1].cdk_path = Some(<<>>) /\ h[1].notes = Some(<<>>)
                 /\ b # Absent /\ b[1].cdk_path = Some(<<"p">>) /\ b[1].notes = Some(<<"n">>)
                 /\ d.cdkPath = Some(<<"p">>)
                 /\ d.notes = <<>>

----------------------------------------------------------------------------
(* The shape of a Delta                                                    *)

IsItemDelta(d, stackName) ==
  /\ DOMAIN d = {"service", "logicalId", "cdkPath", "base", "head", "diff",
                 "notes", "stackName"}
  /\ d.base \in Int /\ d.head \in Int /\ d.diff = d.head - d.base
  /\ d.cdkPath = Absent \/ Len(d.cdkPath) = 1
  /\ d.notes \in Seq(Seq({"n", "m"}))
  /\ d.stackName = stackName

IsStackDelta(sd) ==
  /\ DOMAIN sd = {"stackName", "base", "head", "diff", "items"}
  /\ sd.base \in Int /\ sd.head \in Int /\ sd.diff = sd.head - sd.base
  /\ \A i \in 1..Len(sd.items) : IsItemDelta(sd.items[i], sd.stackName)

IsDelta(dl) ==
  /\ DOMAIN dl = {"total", "stacks"}
  /\ DOMAIN dl.total = {"base", "head", "diff"}
  /\ dl.total.base \in Int /\ dl.total.head \in Int
  /\ dl.total.diff = dl.total.head - dl.total.base
  /\ \A s \in 1..Len(dl.stacks) : IsStackDelta(dl.stacks[s])

(* C12: on reports with a missing stacks collection, stacks without an     *)
(* items collection, disjoint stack sets and absent optional fields,       *)
(* computeDelta returns a Delta, with every missing piece defaulted: a     *)
(* missing collection counts as empty, a missing stack total or item cost  *)
(* as 0, a missing grand total as the sum of the stack totals, missing     *)
(* notes as the empty list and a missing cdk_path as absent.               *)
C12_AlwaysADelta ==
  Done =>
    /\ delta # Absent
    /\ IsDelta(D)
    /\ D.total.base = ResolvedTotal(baseReport)
    /\ D.total.head = ResolvedTotal(headReport)
    /\ {D.stacks[s].stackName : s \in 1..Len(D.stacks)}
         = RawNames(baseReport) \cup RawNames(headReport)
    /\ \A s \in 1..Len(D.stacks) :
         LET sd == D.stacks[s]
             name == sd.stackName
             pairs == RawPairs(baseReport, name) \cup RawPairs(headReport, name)
         IN  /\ sd.base = RawTotal(baseReport, name)
             /\ sd.head = RawTotal(headReport, name)
             /\ Len(sd.items)
                  = Cardinality({p \in pairs : PairVal(baseReport, name, p)
                                                 # PairVal(headReport, name, p)})
             /\ \A i \in 1..Len(sd.items) :
                  LET d == sd.items[i]
                  IN  /\ DeltaPair(d) \in pairs
                      /\ d.base = PairVal(baseReport, name, DeltaPair(d))
                      /\ d.head = PairVal(headReport, name, DeltaPair(d))
                      /\ d.cdkPath = Absent
                      /\ d.notes = <<>>

\* base has no stacks collection and no grand total; head has no grand
\* total and two stacks, one without total and items collection, the other
\* with an item that has neither cdk_path nor notes
C12_Witness ==
  /\ Done
  /\ baseReport.stacks = Absent /\ baseReport.grand_total_usd = Absent
  /\ headReport.grand_total_usd = Absent
  /\ Len(D.stacks) = 2
  /\ \E s, t \in 1..2 :
       /\ RawStack(headReport, D.stacks[s].stackName).total_monthly_usd = Absent
       /\ RawStack(headReport, D.stacks[s].stackName).items = Absent
       /\ D.stacks[s].items = <<>> /\ D.stacks[s].diff = 0
       /\ Len(D.stacks[t].items) = 1
       /\ D.stacks[t].items[1].base = 0 /\ D.stacks[t].items[1].head = 10
  /\ D.total.base = 0

\* disjoint, non-empty stack sets: every stack is a pure addition or removal
C12_WitnessDisjoint ==
  /\ Done
  /\ RawNames(baseReport) # {} /\ RawNames(headReport) # {}
  /\ RawNames(baseReport) \cap RawNames(headReport) = {}
  /\ \E s, t \in 1..Len(D.stacks) :
       /\ Len(D.stacks[s].items) = 1 /\ D.stacks[s].items[1].head = 0
       /\ Len(D.stacks[t].items) = 1 /\ D.stacks[t].items[1].base = 0

----------------------------------------------------------------------------
(* Reading the rendered markdown back: its lines, the cells of a table     *)
(* row, the amount a cell shows.                                           *)

Rendered == pc = "rendered"

\* the text renderMarkdown returned
Md == markdown[1]

\* the lines of a text: the pieces between its newlines
MdLines(t) ==
  LET P == {i \in 1..Len(t) : t[i] = NL}
      n == Cardinality(P)
      pos == [k \in 0..(n + 1) |->
                IF k = 0 THEN 0
                ELSE IF k = n + 1 THEN Len(t) + 1
                ELSE CHOOSE i \in P : Cardinality({j \in P : j <= i}) = k]
  IN  [k \in 1..(n + 1) |-> SubSeq(t, pos[k - 1] + 1, pos[k] - 1)]

TopHeading ==
  <<"*", "*", "T", "o", "p", " ", "r", "e", "s", "o", "u", "r", "c", "e",
    " ", "d", "e", "l", "t", "a", "s", "*", "*">>

\* the line numbers of the "Top resource deltas" heading
HeadingAt(L) == {k \in 1..Len(L) : L[k] = TopHeading}

\* the rows of the item table: the lines after the heading, an empty line,
\* the header and the rule, up to the next empty line
ItemRows(L) ==
  LET h == CHOOSE k \in HeadingAt(L) : TRUE
      stop == CHOOSE k \in (h + 4)..Len(L) :
                /\ L[k] = <<>>
                /\ \A j \in (h + 4)..(k - 1) : L[j] # <<>>
  IN  IF HeadingAt(L) = {} THEN <<>> ELSE SubSeq(L, h + 4, stop - 1)

\* the cells of a table row, without the blank on either side
Cells(row) ==
  LET parts == Split(row, "|")
  IN  [i \in 1..(Len(parts) - 2) |-> SubSeq(parts[i + 1], 2, Len(parts[i + 1]) - 1)]

IsDigit(c) == \E d \in 0..9 : DigitChar(d) = c

DigitVal(c) == CHOOSE d \in 0..9 : DigitChar(d) = c

RECURSIVE NumberOf(_)
NumberOf(ds) ==
  IF ds = <<>> THEN 0
  ELSE 10 * NumberOf(SubSeq(ds, 1, Len(ds) - 1)) + DigitVal(ds[Len(ds)])

\* the cell without the dollar sign and the minus sign
Magnitude(cell) ==
  IF Len(cell) >= 2 /\ cell[2] = "-" THEN SubSeq(cell, 3, Len(cell))
  ELSE SubSeq(cell, 2, Len(cell))

\* a dollar sign, an optional minus sign, digits, a point and two digits
UsdShape(cell) ==
  LET m == Magnitude(cell)
  IN  /\ Len(cell) >= 5 /\ cell[1] = "$"
      /\ Len(m) >= 4 /\ m[Len(m) - 2] = "."
      /\ \A i \in 1..Len(m) : i # Len(m) - 2 => IsDigit(m[i])

\* the amount the cell shows, in thousandths
ShownUsd(cell) ==
  LET m == Magnitude(cell)
      cents == 100 * NumberOf(SubSeq(m, 1, Len(m) - 3))
                 + NumberOf(SubSeq(m, Len(m) - 1, Len(m)))
  IN  IF cell[2] = "-" THEN -10 * cents ELSE 10 * cents

\* the cell shows the value to the nearest cent
Shows(cell, value) ==
  /\ UsdShape(cell)
  /\ Abs(ShownUsd(cell) - value) <= 5
  /\ (cell[2] = "-") <=> (value < 0)

\* the item deltas of the delta that a row with these cells can stand for
PlacesOfRow(cells) ==
  {pl \in ItemPlaces(D) :
     /\ cells[1] = <<ItemAt(D, pl).stackName>>
     /\ cells[2] = ItemAt(D, pl).service
     /\ cells[3] = ItemAt(D, pl).logicalId}

\* what the rows of the item table say: for each row its cells, and the
\* item deltas it can stand for
RECURSIVE ReadRows(_)
ReadRows(rows) ==
  IF rows = <<>> THEN <<>>
  ELSE LET c == Cells(rows[Len(rows)])
           cells == SubSeq(c, 1, Len(c))
       IN  Append(ReadRows(SubSeq(rows, 1, Len(rows) - 1)),
                  [cells |-> cells,
                   places |-> IF Len(cells) = 6 THEN PlacesOfRow(cells) ELSE {}])

\* the item delta a row stands for
ItemOfRow(r) == ItemAt(D, CHOOSE pl \in r.places : TRUE)

(* C14: the markdown has a "Top resource deltas" table iff the delta has   *)
(* at least one item delta; the table has min(10, N) rows for N item       *)
(* deltas over all stacks; the rows are distinct item deltas, shown with   *)
(* their stack, service, logical id, base, head and diff; no item delta    *)
(* left out has a larger absolute diff than one shown; and the rows are in *)
(* non-increasing absolute diff.                                           *)
C14_TopTen ==
  Rendered =>
    LET N == Cardinality(ItemPlaces(D))
        L == MdLines(Md)
        rows == ReadRows(ItemRows(L))
        shown == UNION {rows[i].places : i \in 1..Len(rows)}
        least == IF rows = <<>> THEN 0 ELSE Abs(ItemOfRow(rows[Len(rows)]).diff)
    IN  /\ (HeadingAt(L) # {}) <=> (N >= 1)
        /\ Cardinality(HeadingAt(L)) <= 1
        /\ Len(rows) = IF N < 10 THEN N ELSE 10
        /\ \A i \in 1..Len(rows) :
             /\ Cardinality(rows[i].places) = 1
             /\ Shows(rows[i].cells[4], ItemOfRow(rows[i]).base)
             /\ Shows(rows[i].cells[5], ItemOfRow(rows[i]).head)
             /\ Shows(rows[i].cells[6], ItemOfRow(rows[i]).diff)
        /\ Cardinality(shown) = Len(rows)
        /\ \A i \in 1..(Len(rows) - 1) :
             Abs(ItemOfRow(rows[i]).diff) >= Abs(ItemOfRow(rows[i + 1]).diff)
        /\ \A pl \in ItemPlaces(D) \ shown : Abs(ItemAt(D, pl).diff) <= least

\* 15 item deltas in three stacks give 10 rows, which are not grouped by
\* stack and hold increases and decreases
C14_Witness ==
  /\ Rendered
  /\ Cardinality(ItemPlaces(D)) = 15
  /\ Len(D.stacks) = 3
  /\ LET rows == ReadRows(ItemRows(MdLines(Md)))
     IN  /\ Len(rows) = 10
         /\ \E i, j, k \in 1..10 :
              /\ i < j /\ j < k
              /\ rows[i].cells[1] # rows[j].cells[1]
              /\ rows[i].cells[1] = rows[k].cells[1]
              /\ ItemOfRow(rows[i]).diff > 0
              /\ ItemOfRow(rows[j]).diff < 0

(* C15: for every delta, the all-zero delta without stacks included, and   *)
(* every title, the first line of the markdown is exactly the string that  *)
(* upsertPrComment searches comment bodies for, which is                   *)
(* <!-- cloudcostgh-comment -->.                                           *)
C15_MarkerFirst ==
  Rendered =>
    /\ MdLines(Md)[1] = marker
    /\ Len(marker) = 28
    /\ SubSeq(marker, 1, 5) = <<"<", "!", "-", "-", " ">>
    /\ SubSeq(marker, 6, 24) =
         <<"c", "l", "o", "u", "d", "c", "o", "s", "t", "g", "h", "-",
           "c", "o", "m", "m", "e", "n", "t">>
    /\ SubSeq(marker, 25, 28) = <<" ", "-", "-", ">">>

\* the all-zero delta without stacks has been rendered
C15_Witness ==
  /\ Rendered
  /\ D.stacks = <<>>
  /\ D.total = [base |-> 0, head |-> 0, diff |-> 0]
  /\ Len(MdLines(Md)) > 1

\* a delta with items has been rendered under the other title
C15_WitnessTitle ==
  /\ Rendered
  /\ commentTitle = <<"T">>
  /\ ItemPlaces(D) # {}

\* the cells of the Amount row of the total table
AmountCells(L) == Cells(L[8])

\* the amounts the markdown shows with the values they stand for
ShownAmounts(L) ==
  LET amt == AmountCells(L)
      rows == ReadRows(ItemRows(L))
  IN  {<<amt[2], D.total.base>>, <<amt[3], D.total.head>>, <<amt[4], D.total.diff>>}
      \cup UNION {{<<rows[i].cells[4], ItemOfRow(rows[i]).base>>,
                   <<rows[i].cells[5], ItemOfRow(rows[i]).head>>,
                   <<rows[i].cells[6], ItemOfRow(rows[i]).diff>>} :
                  i \in {j \in 1..Len(rows) : rows[j].places # {}}}

(* C19: every amount is shown as a dollar sign followed by the value with  *)
(* exactly two decimal places, the minus sign of a negative value after    *)
(* the dollar sign: -12.3 as $-12.30, 0 as $0.00 and 1234.5 as $1234.50;   *)
(* and the values handed to the renderer are the unrounded values of the   *)
(* reports and their exact difference.                                     *)
C19_FormatUsd ==
  Rendered =>
    LET L == MdLines(Md)
        amt == AmountCells(L)
    IN  /\ Len(amt) = 4
        /\ amt[1] = <<"A", "m", "o", "u", "n", "t">>
        /\ \A a \in ShownAmounts(L) :
             /\ Shows(a[1], a[2])
             /\ a[2] = -12300 => a[1] = <<"$", "-", "1", "2", ".", "3", "0">>
             /\ a[2] = 0 => a[1] = <<"$", "0", ".", "0", "0">>
             /\ a[2] = 1234500 => a[1] = <<"$", "1", "2", "3", "4", ".", "5", "0">>
        /\ D.total.base = ResolvedTotal(baseReport)
        /\ D.total.head = ResolvedTotal(headReport)
        /\ D.total.diff = ResolvedTotal(headReport) - ResolvedTotal(baseReport)
        /\ \A pl \in ItemPlaces(D) :
             ItemAt(D, pl).diff = ItemAt(D, pl).head - ItemAt(D, pl).base

\* a total of 12.3 that drops to 0 has been rendered
C19_Witness ==
  /\ Rendered
  /\ D.total = [base |-> 12300, head |-> 0, diff |-> -12300]
  /\ ItemPlaces(D) # {}

\* a total of 1234.5 that drops by less than a cent has been rendered
C19_WitnessSubCent ==
  /\ Rendered
  /\ D.total.base = 1234500
  /\ D.total.diff = 4 - 1234500

\* a value that is not a whole number of cents has reached the renderer
C19_WitnessUnrounded ==
  /\ Rendered
  /\ D.total = [base |-> 0, head |-> 125, diff |-> 125]

----------------------------------------------------------------------------
(* Claims about the runs of main on a pull request                         *)

\* the run has come to its end without setFailed
Succeeded == pc = "end" /\ ~failed

\* the comments of the pull request that contain the marker
MarkedComments == {i \in 1..Len(comments) : Includes(comments[i].body, marker)}

\* every run so far, the current one included, left update_existing_comment
\* at its default
AllAtDefault ==
  /\ inputs.updateExistingInput = ""
  /\ \A i \in 1..Len(runs) : runs[i].updateExistingInput = ""

(* C16: after any sequence of runs with update_existing_comment at its     *)
(* default, the last of which has completed, the pull request carries      *)
(* exactly one comment with the marker, and its body is the markdown of    *)
(* the last run, however many other comments the pull request has.         *)
C16_SingleComment ==
  (Succeeded /\ AllAtDefault) =>
    /\ Cardinality(MarkedComments) = 1
    /\ \A i \in MarkedComments : comments[i].body = markdown[1]

\* the same when fewer than a page of other comments came before the first
\* run
C16_WithinFirstPage ==
  (Succeeded /\ AllAtDefault /\ Len(comments) - Cardinality(MarkedComments) < PerPage) =>
    /\ Cardinality(MarkedComments) = 1
    /\ \A i \in MarkedComments : comments[i].body = markdown[1]

\* a second run has updated the comment of the first behind 99 others
C16_WitnessUpdated ==
  /\ Succeeded /\ AllAtDefault
  /\ Len(runs) = 1 /\ ~runs[1].failed
  /\ Len(comments) = PerPage
  /\ MarkedComments = {PerPage}
  /\ \E i \in 1..Len(calls) : calls[i].kind = "updateComment" /\ calls[i].ok

\* the write calls of the run
Writes(cs) == SelectSeq(cs, LAMBDA c : c.kind \in {"createComment", "updateComment"})

\* a marked comment is among those the listing returns
Found(cs) ==
  \E i \in 1..Len(cs) : i <= PerPage /\ Includes(cs[i].body, marker)

(* C17: a run makes at most one write call, and the upsert that completes  *)
(* has made exactly one: when the listing holds a marked comment and       *)
(* update_existing_comment is '' or anything but 'false', it updates the   *)
(* first such comment to the new markdown and creates none; otherwise it   *)
(* creates one comment with the new markdown and updates none.             *)
C17_OneWrite ==
  [][/\ Len(Writes(calls')) <= 1
     /\ (pc = "listed" /\ pc' = "written") =>
          LET update == Found(comments) /\ inputs.updateExistingInput # "false"
              first == CHOOSE i \in 1..Len(comments) :
                         /\ Includes(comments[i].body, marker)
                         /\ \A j \in 1..(i - 1) : ~Includes(comments[j].body, marker)
          IN  /\ Len(Writes(calls')) = 1
              /\ Len(Writes(calls)) = 0
              /\ Writes(calls')[1].ok
              /\ Writes(calls')[1].kind =
                   IF update THEN "updateComment" ELSE "createComment"
              /\ IF update
                   THEN /\ Len(comments') = Len(comments)
                        /\ comments'[first].body = markdown[1]
                        /\ \A i \in 1..Len(comments) : i # first => comments'[i] = comments[i]
                   ELSE /\ Len(comments') = Len(comments) + 1
                        /\ comments'[Len(comments')].body = markdown[1]
                        /\ \A i \in 1..Len(comments) : comments'[i] = comments[i]]_vars

\* the run found the marked comment and updated it under an input that is
\* neither '' nor 'false'
C17_Witness ==
  /\ pc = "written"
  /\ inputs.updateExistingInput = "no"
  /\ existing # Absent
  /\ Writes(calls) = <<Call("updateComment", "", TRUE)>>

\* the run found the marked comment and created another one under 'false'
C17_WitnessCreate ==
  /\ pc = "written"
  /\ inputs.updateExistingInput = "false"
  /\ existing # Absent
  /\ Writes(calls) = <<Call("createComment", "", TRUE)>>
  /\ Cardinality(MarkedComments) = 2

\* the positions of the calls of one kind in the run
CallsOf(kind) == {i \in 1..Len(calls) : calls[i].kind = kind}

\* a call of this kind and argument that succeeded lies strictly between
OkBetween(kind, arg, lo, hi) ==
  \E i \in CallsOf(kind) : lo < i /\ i < hi /\ calls[i].arg = arg /\ calls[i].ok

(* C18: a run invokes the analyzer at most twice, one call after the end   *)
(* of the other: the first writes the head report on the tree the run      *)
(* started on, the second writes the base report on the base checkout,     *)
(* after the head call has succeeded and written its report, a git         *)
(* checkout of the base and a synth after that; a run that succeeds has    *)
(* made both calls.                                                        *)
C18_TwoAnalyses ==
  LET A == CallsOf("analyzer")
  IN  /\ Cardinality(A) <= 2
      /\ \A i \in A :
           IF \A j \in A : i <= j
             THEN /\ calls[i].arg = "head"
                  /\ calls[i].at = "head"
                  /\ \A c \in CallsOf("checkout") : i < c
                  /\ OkBetween("synth", "", 0, i)
             ELSE /\ calls[i].arg = "base"
                  /\ calls[i].at = "base"
                  /\ "head" \in runner.written
                  /\ \E h \in A : \E c \in CallsOf("checkout") :
                       /\ h < c /\ c < i
                       /\ calls[h].ok /\ calls[h].arg = "head"
                       /\ calls[c].ok /\ calls[c].arg = "base"
                       /\ OkBetween("synth", "", c, i)
      /\ Succeeded =>
           /\ Cardinality(A) = 2
           /\ \A i \in A : calls[i].ok
           /\ runner.written = {"base", "head"}

\* a run has succeeded after both analyses
C18_Witness ==
  /\ Succeeded
  /\ Cardinality(CallsOf("analyzer")) = 2
  /\ Cardinality(CallsOf("checkout")) = 2

\* a run has ended with the failure of the base analysis
C18_WitnessBaseFails ==
  /\ pc = "end" /\ failed
  /\ \E i \in CallsOf("analyzer") : calls[i].arg = "base" /\ ~calls[i].ok

(* C20: a run sends at most one usage record, only when                    *)
(* enable_usage_reporting is neither '' nor 'false', and only after both   *)
(* analyzer calls and the write of the comment have succeeded; a usage     *)
(* request that fails leaves the run not failed.                           *)
C20_UsageRecord ==
  LET U == CallsOf("usage")
  IN  /\ Cardinality(U) <= 1
      /\ \A u \in U :
           /\ inputs.enableUsageReportingInput \notin {"", "false"}
           /\ OkBetween("analyzer", "head", 0, u)
           /\ OkBetween("analyzer", "base", 0, u)
           /\ \E w \in 1..(u - 1) :
                calls[w].kind \in {"createComment", "updateComment"} /\ calls[w].ok
           /\ \A i \in 1..(u - 1) : calls[i].ok
           /\ ~failed

\* a run has ended with a failed usage request
C20_Witness ==
  /\ pc = "end"
  /\ \E u \in CallsOf("usage") : ~calls[u].ok
  /\ ~failed

\* a run has succeeded without a usage request under the default
C20_WitnessDefault ==
  /\ Succeeded
  /\ inputs.enableUsageReportingInput = ""
  /\ CallsOf("usage") = {}

\* the kinds of the commands main runs with runCmd
CommandKinds == {Commands[i].kind : i \in 1..Len(Commands)}

(* C24: when the GitHub token, the API key or the pull request of the      *)
(* event is missing, the run is marked failed and ends without a single    *)
(* command and without a single GitHub or backend request.                 *)
C24_ChecksFirst ==
  (~inputs.githubToken \/ ~inputs.apiKey \/ ~inputs.pull) =>
    /\ calls = <<>>
    /\ pc \in {"config", "end"}
    /\ pc = "end" => failed
    /\ runner = FreshRunner
    /\ markdown = Absent

\* a run on an event without pull request has ended
C24_Witness ==
  /\ pc = "end" /\ failed
  /\ inputs.githubToken /\ inputs.apiKey /\ ~inputs.pull
  /\ calls = <<>>

\* a run without GitHub token has ended
C24_WitnessToken ==
  /\ pc = "end" /\ failed
  /\ ~inputs.githubToken
  /\ calls = <<>>

C25_WitnessSynth ==
  /\ pc = "end" /\ failed
  /\ Len(calls) = 4
  /\ calls[4].kind = "synth" /\ ~calls[4].ok

\* a run has written its comment
C25_WitnessWritten ==
  /\ pc = "written"
  /\ Len(Writes(calls)) = 1

\* git checkout <baseSha> has succeeded in the run
BaseCheckedOut ==
  \E i \in CallsOf("checkout") : calls[i].arg = "base" /\ calls[i].ok

(* C29: whenever a run ends after git checkout <baseSha> has been          *)
(* executed, the working tree is back on the head commit, on the success   *)
(* path and on the failure paths after the base checkout.                  *)
C29_BackOnHead ==
  (pc = "end" /\ BaseCheckedOut) => runner.checkout = "head"

\* the same for the runs that got past the last command
C29_BackOnHeadAfterCommands ==
  (pc = "end" /\ BaseCheckedOut /\ \A i \in CallsOf("synth") \cup CallsOf("analyzer") \cup CallsOf("checkout") : calls[i].ok) =>
    runner.checkout = "head"

\* a run has ended on the base checkout after the base synth failed
C29_LeftOnBase ==
  /\ pc = "end" /\ failed
  /\ BaseCheckedOut
  /\ ~calls[Len(calls)].ok /\ calls[Len(calls)].kind = "synth"
  /\ runner.checkout = "base"

----------------------------------------------------------------------------
(* Claims about the internal key `${service}|${logical_id}`                *)

\* the items of the stack, of either report, an item delta can have been
\* built from: those with its pair, its cost on their side
SourcesOf(d, name) ==
  {item \in Range(RawItems(baseReport, name)) :
     PairOf(item) = DeltaPair(d) /\ item.monthly_usd = d.base}
  \cup {item \in Range(RawItems(headReport, name)) :
          PairOf(item) = DeltaPair(d) /\ item.monthly_usd = d.head}

(* C26: every emitted ItemDelta carries the (service, logical_id) of the   *)
(* item it was built from, also when the strings contain '|': an item of   *)
(* its stack with exactly this pair and this cost exists in the base or    *)
(* the head report.                                                        *)
C26_PairKept ==
  Done =>
    \A pl \in ItemPlaces(D) :
      SourcesOf(ItemAt(D, pl), D.stacks[pl[1]].stackName) # {}

\* an item delta without '|' in its pair has been emitted with its pair
C26_PlainKept ==
  /\ Done
  /\ \E pl \in ItemPlaces(D) :
       /\ DeltaPair(ItemAt(D, pl)) = <<<<"a">>, <<"c">>>>
       /\ SourcesOf(ItemAt(D, pl), D.stacks[pl[1]].stackName) # {}

\* the key of a pair
KeyOfPair(pair) == ItemKey([service |-> pair[1], logical_id |-> pair[2]])

(* C27: two items of one stack with different (service, logical_id) never  *)
(* share an index entry: every pair of a stack of a report is served by an *)
(* item of that pair, and no pair of the base stack has the key of a       *)
(* different pair of the head stack.                                       *)
C27_NoSharedEntry ==
  Done =>
    \A name \in RawNames(baseReport) \cup RawNames(headReport) :
      /\ \A pair \in RawPairs(baseReport, name) :
           /\ ItemTakenFor(baseReport, name, pair) # Absent
           /\ PairOf(ItemTakenFor(baseReport, name, pair)[1]) = pair
      /\ \A pair \in RawPairs(headReport, name) :
           /\ ItemTakenFor(headReport, name, pair) # Absent
           /\ PairOf(ItemTakenFor(headReport, name, pair)[1]) = pair
      /\ \A bp \in RawPairs(baseReport, name) : \A hp \in RawPairs(headReport, name) :
           bp # hp => KeyOfPair(bp) # KeyOfPair(hp)

\* two items of different pairs in one stack of the head report
C27_TwoPairs ==
  /\ Done
  /\ \E name \in RawNames(headReport) : Cardinality(RawPairs(headReport, name)) >= 2

----------------------------------------------------------------------------
(* Claims about what a run logs                                            *)

\* the line carries the value of the API key
ShowsApiKey(line) == \E i \in 1..Len(line) : line[i] = ApiKeyValue

(* C28: no line that runCmd or main logs, and no error message, contains   *)
(* the value of the API key: neither the announcement of the analyzer      *)
(* command nor the message of a failed command that carries --api-key.     *)
C28_KeyNotLogged ==
  \A i \in 1..Len(output) : ~ShowsApiKey(output[i])

\* the commands before the analyzer have been announced without the key
C28_BeforeAnalyzer ==
  /\ pc = "commands"
  /\ runner.step = 5
  /\ Len(output) = 4
  /\ \A i \in 1..Len(output) : ~ShowsApiKey(output[i])

\* the head analyzer has failed: its announcement and its error message
\* carry the key
C28_KeyInError ==
  /\ pc = "end" /\ failed
  /\ Len(output) = 6
  /\ ShowsApiKey(output[5]) /\ output[5][1] = "$ "
  /\ ShowsApiKey(output[6]) /\ output[6][1] = "Command failed: "

----------------------------------------------------------------------------
(* Claims about overlapping runs                                           *)

\* both runs have finished their upsert, each with update_existing_comment
\* at its default
BothWritten ==
  \A r \in Overlapping : pc[r] = "written" /\ inputs[r].updateExistingInput = ""

(* C30: when two runs on one pull request overlap, then however their      *)
(* listComments and createComment/updateComment requests interleave, the   *)
(* pull request ends with at most one comment that contains the marker.    *)
C30_AtMostOneMarked ==
  BothWritten => Cardinality(MarkedComments) <= 1

\* the same for a pull request that had the comment of an earlier run
C30_WithEarlierComment ==
  (BothWritten /\ comments[1].id = 1 /\ Includes(comments[1].body, marker)
     /\ Writes(calls)[1].kind = "updateComment")
    => Cardinality(MarkedComments) = 1

\* both runs listed the comments before either wrote, and both created
C30_BothCreated ==
  /\ BothWritten
  /\ Len(calls) = 4
  /\ calls[1].kind = "listComments" /\ calls[2].kind = "listComments"
  /\ calls[1].run # calls[2].run
  /\ calls[3].kind = "createComment" /\ calls[4].kind = "createComment"
  /\ Cardinality(MarkedComments) = 2

\* one run wrote before the other listed, and the other updated
C30_OneAfterTheOther ==
  /\ BothWritten
  /\ Len(calls) = 4
  /\ calls[2].kind = "createComment" /\ calls[4].kind = "updateComment"
  /\ Cardinality(MarkedComments) = 1

----------------------------------------------------------------------------
(* Claims about scripts/post-markdown.js                                   *)

\* the comments of the pull request that contain the script's marker
MarkComments == {i \in 1..Len(comments) : Includes(comments[i].body, MARK)}

\* the text ends with the marker
EndsWithMark(t) ==
  Len(t) >= Len(MARK) /\ SubSeq(t, Len(t) - Len(MARK) + 1, Len(t)) = MARK

(* C23: after any sequence of runs of post-markdown on one pull request,   *)
(* at most one comment contains <!-- cloudcost-cfn-comment -->; a run that *)
(* completes leaves exactly one, whose body is the file of that run and    *)
(* ends with the marker: the first run creates it, each later run updates  *)
(* it, however many other comments the pull request has.                   *)
C23_SingleComment ==
  /\ Cardinality(MarkComments) <= 1
  /\ \A i \in MarkComments : EndsWithMark(comments[i].body)
  /\ (pc = "end" /\ exitCode = Some(0)) =>
       /\ Cardinality(MarkComments) = 1
       /\ \A i \in MarkComments : comments[i].body = finalBody(markdown[1])
       /\ calls[Len(calls)].kind =
            IF \E i \in 1..Len(runs) : runs[i].exitCode = Some(0) THEN "PATCH" ELSE "POST"

\* the same on a pull request with fewer other comments than a page holds
C23_WithinFirstPage ==
  (Len(comments) - Cardinality(MarkComments) < DefaultPerPage) => C23_SingleComment

\* what every run posts ends with the marker
C23_BodiesEndWithMark ==
  \A i \in MarkComments : EndsWithMark(comments[i].body)

\* a second run has updated the comment of the first behind 29 others
C23_Updated ==
  /\ pc = "end" /\ exitCode = Some(0)
  /\ Len(runs) = 1 /\ runs[1].exitCode = Some(0)
  /\ MarkComments = {DefaultPerPage}
  /\ calls[Len(calls)].kind = "PATCH"

\* a second run has created a second marked comment behind 30 others
C23_Duplicated ==
  /\ pc = "end" /\ exitCode = Some(0)
  /\ Len(runs) = 1
  /\ MarkComments = {DefaultPerPage + 1, DefaultPerPage + 2}

----------------------------------------------------------------------------
(* Claims about verify-license.js                                          *)

\* the process has ended and every request it made went through
EndedWithoutCrash == pc = "end" /\ \A i \in 1..Len(calls) : calls[i].ok

\* the kinds of the requests made, in order
KindsOf(cs) == [i \in 1..Len(cs) |-> cs[i].kind]

\* the status request the script has made
StatusSet == calls[2].arg

C21_WitnessNoPull ==
  /\ EndedWithoutCrash
  /\ inputs.status = 401
  /\ inputs.pulls.list /\ inputs.pulls.numbers = <<>>
  /\ comments = <<>>
  /\ exitCode = Some(1)

\* the license has been verified
C21_WitnessLicensed ==
  /\ EndedWithoutCrash
  /\ inputs.status = 200
  /\ exitCode = Some(0)

----------------------------------------------------------------------------
(* Claims about scripts/collect-cfn-diff.js                                *)

\* the script has written its payload
Collected == pc = "end" /\ exitCode = Some(0)

\* the path is in the payload
InPayload(p) == \E k \in 1..Len(files) : files[k].path = p

\* the documented filename patterns: *.template.json|yml|yaml, a file named
\* template.json|yml|yaml, or a .json file with a directory cdk.out above it
Documented(p) ==
  LET segments == Split(p, "/")
      name == segments[Len(segments)]
  IN  \/ \E t \in {TemplateJson, TemplateYml, TemplateYaml} :
           endsWith(p, <<".">> \o t) \/ name = t
      \/ /\ endsWith(name, DotJson)
         /\ \E i \in 1..(Len(segments) - 1) :
              segments[i] = <<"c", "d", "k", ".", "o", "u", "t">>

(* C22: every changed file whose path matches a documented filename        *)
(* pattern is in the payload under its path, whatever its content: a path  *)
(* ending with .template.json/.yml/.yaml, a file named                     *)
(* template.json/.yml/.yaml, or a .json file inside a cdk.out/ directory   *)
(* at any depth, the repository root included.                             *)
C22_PathMatched ==
  Collected =>
    \A i \in 1..Len(inputs.repo) :
      Documented(inputs.repo[i].path) => InPayload(inputs.repo[i].path)

\* the same for paths without a space, other than files of a cdk.out at the
\* repository root
C22_BelowRoot ==
  Collected =>
    \A i \in 1..Len(inputs.repo) :
      LET p == inputs.repo[i].path
      IN  (Documented(p) /\ (\A j \in 1..Len(p) : p[j] # " ")
             /\ SubSeq(p, 1, 8) # <<"c", "d", "k", ".", "o", "u", "t", "/">>)
            => InPayload(p)

\* a .json file of a nested cdk.out with plain content is in the payload,
\* a source file with plain content is not
C22_NestedKept ==
  /\ Collected
  /\ Len(inputs.repo) = 2
  /\ inputs.repo[1].path[1] = "i" /\ endsWith(inputs.repo[1].path, DotJson)
  /\ inputs.repo[1].head = Some(PlainText) /\ inputs.repo[1].base = Absent
  /\ inputs.repo[2].path[1] = "s"
  /\ inputs.repo[2].head = Some(PlainText) /\ inputs.repo[2].base = Absent
  /\ Len(files) = 1 /\ files[1].path = inputs.repo[1].path

\* a .json file of cdk.out at the repository root with plain content is not
\* in the payload
C22_RootCdkOutSkipped ==
  /\ Collected
  /\ Len(inputs.repo) = 1
  /\ inputs.repo[1].path = <<"c", "d", "k", ".", "o", "u", "t", "/", "S", ".", "j", "s", "o", "n">>
  /\ inputs.repo[1].head = Some(PlainText)
  /\ files = <<>>

====
